---- MODULE Spec2Model ----
(***************************************************************************)
(* Bulk-send orchestration of the email service: EmailService.sendEmail,   *)
(* EmailService.sendBulkEmails, EmailService.reset and the singleton       *)
(* ledger EmailService.results, run on the single-threaded JavaScript      *)
(* event loop.  Every action is one turn of the event loop: a call from the *)
(* page, a network completion or a timer, with the promise reactions it    *)
(* triggers.                                                               *)
(***************************************************************************)
EXTENDS Integers, Sequences, FiniteSets, TLC

(* ------------------------------ bounds --------------------------------- *)
MaxRuns == 2       \* invocations of sendBulkEmails in one behaviour
MaxTotal == 3      \* recipients handed to sendBulkEmails, summed over all runs
MaxBatches == 4    \* iterations of the loop of sendBulkEmails in one run

(* ------------------------- program constants --------------------------- *)
DefaultBatchSize == 10
DefaultDelay == 1000

\* recipient lists: prefixes of a@ b@ a@ b@ ... and of a@ a@ b@ b@ ..., so that
\* lists with distinct entries, with adjacent duplicates and with duplicates in
\* different groups all occur (the scheduler never inspects an address)
Alternating(n) == [k \in 1..n |-> IF k % 2 = 1 THEN "a@x.io" ELSE "b@x.io"]
Paired(n) == [k \in 1..n |-> IF ((k - 1) \div 2) % 2 = 0 THEN "a@x.io" ELSE "b@x.io"]
EmailLists == {Alternating(n) : n \in 0..MaxTotal} \cup {Paired(n) : n \in 0..MaxTotal}

Runs == 1..MaxRuns
\* values of Config.email.batchSize: unset (falls back to the default), 1, 2
BatchSizeConfigs == {0, 1, 2}
\* values of Config.email.batchSize below 1 that are truthy in JavaScript
MalformedBatchSizes == {-1, -2}
\* values of Config.email.delayBetweenBatches in ms: 0 (or unset), 500
DelayConfigs == {0, 500}

\* what the backend / the transport can answer one send with
Responses == {"sent", "rejected", "fetch_throws", "json_throws"}

VARIABLES
    cfgBatchSize,   \* Config.email.batchSize
    cfgDelay,       \* Config.email.delayBetweenBatches
    ledger,         \* EmailService.results: the current {success, failure} object
    pc,             \* position of each invocation of sendBulkEmails
    emailList,      \* its argument emailList
    i,              \* its loop variable i (0-based, as in the code)
    pending,        \* list positions (1-based) whose sendEmail is in flight
    settled,        \* outcomes of the current batch, in the order they settled
    batches,        \* the slices the loop has taken, in order
    sent,           \* the calls of sendEmail made by the run, in order
    threw,          \* history: list positions whose fetch or json() threw
    recorded,       \* history: the outcomes the run itself has pushed, by array
    delays,         \* the durations the run has passed to setTimeout, in order
    progress,       \* the snapshots handed to progressCallback, in order
    observed,       \* history: per callback, how many outcomes of the group
                    \* just awaited were in the ledger when it was called
    result,         \* the object the run resolved with
    attached,       \* the arrays in result are those of the current
                    \* EmailService.results object (same references)
    overlapped,     \* history: another run was in flight during this run
    resetDuring,    \* history: reset() was called while this run was in flight
    wire,           \* one send on its way: sendEmail, the backend, the provider
    emails,         \* the argument of a validateEmails call
    validation,     \* what the call returned
    formManager,    \* FormManager: currentStep and formData
    excelParser,    \* ExcelParser: workbook, currentSheet, sheetData
    dom,            \* the elements of the page the handlers read and write
    ui,             \* files being read, and history of the user's session
    invocation      \* one invocation of the backend's handlers on an event

vars == <<cfgBatchSize, cfgDelay, ledger, pc, emailList, i, pending, settled,
          batches, sent, threw, recorded, delays, progress, observed, result,
          attached, overlapped, resetDuring, wire, emails, validation, invocation, formManager,
          excelParser, dom, ui, invocation>>

(* ------------------------------ helpers -------------------------------- *)
Min(a, b) == IF a < b THEN a ELSE b

Max(a, b) == IF a < b THEN b ELSE a

EmptyLedger == [success |-> <<>>, failure |-> <<>>]

NoResult ==
    [success |-> <<>>, failure |-> <<>>, total |-> 0, successCount |-> 0, failureCount |-> 0]

InFlight(r) == pc[r] \in {"await_all", "delay"}

\* no invocation of sendBulkEmails is suspended
Quiet == \A q \in Runs : ~InFlight(q)

RECURSIVE SumLen(_, _)
SumLen(lists, rs) ==
    IF rs = {} THEN 0
    ELSE LET r == CHOOSE x \in rs : TRUE
         IN Len(lists[r]) + SumLen(lists, rs \ {r})

(* --------------------------- pure functions ---------------------------- *)
\* Config.email.batchSize || 10
EffectiveBatchSize(cfg) == IF cfg = 0 THEN DefaultBatchSize ELSE cfg

BatchSize == EffectiveBatchSize(cfgBatchSize)

\* Config.email.delayBetweenBatches || 1000
EffectiveDelay(cfg) == IF cfg = 0 THEN DefaultDelay ELSE cfg

Delay == EffectiveDelay(cfgDelay)

\* Array.prototype.slice's reading of an index: a negative index counts from
\* the end, and the result is clamped to 0 .. length
RelativeIndex(x, len) == IF x < 0 THEN Max(len + x, 0) ELSE Min(x, len)

SliceOneMore(list, from, to) ==
    LET first == RelativeIndex(from, Len(list))
        final == RelativeIndex(to + 1, Len(list))
    IN [k \in 1..(final - first) |-> list[first + k]]

\* emailList.slice(from, to): positions first+1 .. final (0-based first .. final-1)
Slice(list, from, to) ==
    LET first == RelativeIndex(from, Len(list))
        final == RelativeIndex(to, Len(list))
    IN [k \in 1..(final - first) |-> list[first + k]]

SendEmailNoCatch(toEmail, resp) ==
    CASE resp = "sent" ->
            [success |-> TRUE, email |-> toEmail, errorCode |-> "", rejects |-> FALSE]
      [] resp = "rejected" ->
            [success |-> FALSE, email |-> toEmail, errorCode |-> "400", rejects |-> FALSE]
      [] OTHER ->
            [success |-> FALSE, email |-> toEmail, errorCode |-> "NETWORK_ERROR",
             rejects |-> TRUE]

\* the value the promise returned by sendEmail(toEmail, ...) is fulfilled with
\* (rejects: the promise is rejected instead of fulfilled; the try/catch
\* around fetch and response.json() leaves no path that rejects)
SendEmail(toEmail, resp) ==
    CASE resp = "sent" ->
            [success |-> TRUE, email |-> toEmail, errorCode |-> "", rejects |-> FALSE]
      [] resp = "rejected" ->
            [success |-> FALSE, email |-> toEmail, errorCode |-> "400", rejects |-> FALSE]
      [] OTHER ->
            [success |-> FALSE, email |-> toEmail, errorCode |-> "NETWORK_ERROR",
             rejects |-> FALSE]

\* the result object of one call, with the identity of the call that made it
Outcome(r, k, o) ==
    [success |-> o.success, email |-> o.email, errorCode |-> o.errorCode,
     rejects |-> o.rejects, run |-> r, idx |-> k]

\* the settled outcomes of list positions from+1 .. from+n, by list position
RECURSIVE InListOrder(_, _, _)
InListOrder(done, from, n) ==
    IF n = 0 THEN <<>>
    ELSE LET here == {p \in 1..Len(done) : done[p].idx = from + n}
         IN InListOrder(done, from, n - 1) \o
            (IF here = {} THEN <<>> ELSE <<done[CHOOSE p \in here : TRUE]>>)

InRange(done, from, n) == {p \in 1..Len(done) : done[p].idx \in (from + 1)..(from + n)}

\* (the values in the order in which the promises settled)
PromiseAllBySettle(done, from, n) ==
    LET ps == InRange(done, from, n)
        Nth(m) == CHOOSE p \in ps : Cardinality({j \in ps : j < p}) = m - 1
    IN [m \in 1..Cardinality(ps) |-> done[Nth(m)]]

\* Promise.all(batchPromises): the values in the order of the promises
PromiseAll(done, from, n) == InListOrder(done, from, n)

SomeFailed(done, from, n) ==
    \E p \in 1..Len(done) : done[p].idx \in (from + 1)..(from + n) /\ ~done[p].success

\* Promise.all rejects as soon as one of its promises rejects
SomeRejected(done, from, n) ==
    \E p \in 1..Len(done) : done[p].idx \in (from + 1)..(from + n) /\ done[p].rejects

IsSuccess(o) == o.success
IsFailure(o) == ~o.success

CategorizeNewestFirst(led, batchResults) ==
    [success |-> SelectSeq(batchResults, IsSuccess) \o led.success,
     failure |-> SelectSeq(batchResults, IsFailure) \o led.failure]

\* batchResults.forEach(result => ...push(result))
Categorize(led, batchResults) ==
    [success |-> led.success \o SelectSeq(batchResults, IsSuccess),
     failure |-> led.failure \o SelectSeq(batchResults, IsFailure)]

ProcessedNoMin(at, bs, total) == at + bs

\* Math.min(i + batchSize, total)
Processed(at, bs, total) == Min(at + bs, total)

MoreBatchesOffByOne(at, bs, len) == at + bs + 1 < len

MoreBatchesInclusive(at, bs, len) == at + bs <= len

\* i + batchSize < emailList.length
MoreBatches(at, bs, len) == at + bs < len

\* the ledger as the progress callback finds it: the forEach that appends the
\* group's outcomes has run before the callback is called
LedgerAtCallback(before, after) == after

OwnCount(led, r, from, n) ==
    Cardinality({p \in 1..Len(led.success) :
                    led.success[p].run = r /\ led.success[p].idx \in (from + 1)..(from + n)})
    + Cardinality({p \in 1..Len(led.failure) :
                    led.failure[p].run = r /\ led.failure[p].idx \in (from + 1)..(from + n)})

Snapshot(processed, total, led) ==
    [processed |-> processed, total |-> total,
     success |-> Len(led.success), failure |-> Len(led.failure)]

RunResultSwapped(led, total) ==
    [success |-> led.success, failure |-> led.failure, total |-> total,
     successCount |-> Len(led.failure), failureCount |-> Len(led.success)]

\* the object sendBulkEmails returns; success and failure are the arrays of
\* this.results themselves, not copies
RunResult(led, total) ==
    [success |-> led.success, failure |-> led.failure, total |-> total,
     successCount |-> Len(led.success), failureCount |-> Len(led.failure)]

\* a push onto the arrays of this.results shows in every result that holds them
Aliased(res, att, led) ==
    [q \in Runs |-> IF att[q]
                    THEN [res[q] EXCEPT !.success = led.success, !.failure = led.failure]
                    ELSE res[q]]

\* (waits for each send before issuing the next: only the first is issued)
IssueBatchOneByOne(r, from, batch) ==
    [k \in 1..Min(1, Len(batch)) |-> [idx |-> from + k, toEmail |-> batch[k]]]

\* (skips an entry equal to an earlier entry of the batch)
IssueBatchDedup(r, from, batch) ==
    LET firsts == {k \in 1..Len(batch) : \A j \in 1..(k - 1) : batch[j] # batch[k]}
        Nth(n) == CHOOSE k \in firsts : Cardinality({j \in firsts : j < k}) = n - 1
    IN [n \in 1..Cardinality(firsts) |-> [idx |-> from + Nth(n), toEmail |-> batch[Nth(n)]]]

\* batch.map(email => this.sendEmail(email, subject, body)): one call per entry
IssueBatch(r, from, batch) ==
    [k \in 1..Len(batch) |-> [idx |-> from + k, toEmail |-> batch[k]]]

\* a JavaScript number that is a ratio of two integers, in lowest terms;
\* den = 0 stands for NaN (0 / 0)
RECURSIVE GCD(_, _)
GCD(a, b) == IF b = 0 THEN a ELSE GCD(b, a % b)

Ratio(a, b) ==
    IF b = 0 THEN [num |-> 0, den |-> 0]
    ELSE [num |-> a \div GCD(a, b), den |-> b \div GCD(a, b)]

Zero == Ratio(0, 1)

KeepNaN(x) == x

\* x || 0: NaN and 0 are falsy
OrZero(x) == IF x.den = 0 \/ x.num = 0 THEN Zero ELSE x

\* EmailService.getSuccessList()
GetSuccessList(led) == led.success

\* EmailService.getFailureList()
GetFailureList(led) == led.failure

GetSummaryNoScale(led) ==
    [total |-> Len(led.success) + Len(led.failure),
     success |-> Len(led.success),
     failure |-> Len(led.failure),
     successRate |-> OrZero(Ratio(Len(led.success),
                                  Len(led.success) + Len(led.failure)))]

\* EmailService.getSummary()
GetSummary(led) ==
    [total |-> Len(led.success) + Len(led.failure),
     success |-> Len(led.success),
     failure |-> Len(led.failure),
     successRate |-> OrZero(Ratio(Len(led.success) * 100,
                                  Len(led.success) + Len(led.failure)))]

BatchSettledFirst(left) == TRUE

BatchSettledAny(left) == Cardinality(left) <= 1

\* Promise.all is fulfilled: no promise of the batch is left unsettled
BatchSettled(left) == left = {}

(* --------------------------- JavaScript values ------------------------- *)
\* a property a JavaScript object does not have
Absent == "<absent>"

\* null, for the properties that hold a text, a name or nothing
Null == "<null>"

\* !x for the strings the handlers test
Falsy(x) == x \in {"", Absent, Null}

\* x || y
Or(x, y) == IF Falsy(x) THEN y ELSE x

(* ---------------------------- ExcelParser ------------------------------ *)
\* the texts a cell of an uploaded sheet holds
CellTexts == {"a@x.io", "A@x.io", "b@x.io", "bad", "a@x", "a b@x.io", "@x.io", "a@x."}

\* the characters of a text
Chars(text) ==
    CASE text = "a@x.io" -> <<"a", "@", "x", ".", "i", "o">>
      [] text = "A@x.io" -> <<"A", "@", "x", ".", "i", "o">>
      [] text = "b@x.io" -> <<"b", "@", "x", ".", "i", "o">>
      [] text = "bad" -> <<"b", "a", "d">>
      [] text = "a@x" -> <<"a", "@", "x">>
      [] text = "a b@x.io" -> <<"a", " ", "b", "@", "x", ".", "i", "o">>
      [] text = "@x.io" -> <<"@", "x", ".", "i", "o">>
      [] text = "a@x." -> <<"a", "@", "x", ".">>
      [] text = "" -> <<>>
      [] text = " " -> <<" ">>
      [] text = "Hi" -> <<"H", "i">>
      [] text = " Hi " -> <<" ", "H", "i", " ">>
      [] text = "Email" -> <<"E", "m", "a", "i", "l">>
      [] text = "Name" -> <<"N", "a", "m", "e">>
      [] text = "Mail" -> <<"M", "a", "i", "l">>
      [] text = " b@x.io" -> <<" ", "b", "@", "x", ".", "i", "o">>

\* every text of the model
Texts == CellTexts \cup {"", " ", "Hi", " Hi ", "Email", "Name", "Mail", " b@x.io"}

\* the text with the given characters
Text(cs) == CHOOSE text \in Texts : Chars(text) = cs

\* String.prototype.trim on the characters
RECURSIVE TrimStart(_)
TrimStart(cs) == IF cs # <<>> /\ Head(cs) = " " THEN TrimStart(Tail(cs)) ELSE cs

RECURSIVE TrimEnd(_)
TrimEnd(cs) ==
    IF cs # <<>> /\ cs[Len(cs)] = " " THEN TrimEnd(SubSeq(cs, 1, Len(cs) - 1)) ELSE cs

Trim(text) == Text(TrimEnd(TrimStart(Chars(text))))

\* [^\s@]+ : one or more characters, none of them white space or "@"
IsPart(cs, from, to) ==
    from <= to /\ \A p \in from..to : cs[p] \notin {" ", "@"}

\* emailRegex.test(email) for /^[^\s@]+@[^\s@]+\.[^\s@]+$/
Matches(text) ==
    LET cs == Chars(text)
    IN \E at \in 1..Len(cs), dot \in 1..Len(cs) :
          /\ cs[at] = "@" /\ cs[dot] = "."
          /\ IsPart(cs, 1, at - 1)
          /\ IsPart(cs, at + 1, dot - 1)
          /\ IsPart(cs, dot + 1, Len(cs))

\* [...new Set(valid)]: a Set keeps the first insertion of each value, and
\* strings are the same value when they are equal character by character
RECURSIVE NewSet(_)
NewSet(seq) ==
    IF seq = <<>> THEN <<>>
    ELSE LET before == NewSet(SubSeq(seq, 1, Len(seq) - 1))
             last == seq[Len(seq)]
         IN IF \E p \in 1..Len(before) : before[p] = last THEN before
            ELSE Append(before, last)

\* the valid array and the invalid array after the forEach
RECURSIVE ValidOf(_)
ValidOf(list) ==
    IF list = <<>> THEN <<>>
    ELSE LET before == ValidOf(SubSeq(list, 1, Len(list) - 1))
             email == list[Len(list)]
         IN IF Matches(email) THEN Append(before, email) ELSE before

RECURSIVE InvalidOf(_)
InvalidOf(list) ==
    IF list = <<>> THEN <<>>
    ELSE LET before == InvalidOf(SubSeq(list, 1, Len(list) - 1))
             index == Len(list) - 1
             email == list[Len(list)]
         IN IF Matches(email) THEN before
            ELSE Append(before, [email |-> email, row |-> index + 2,
                                 reason |-> "Invalid email format"])

\* (without the removal of duplicates)
ValidateEmailsKeepAll(list) ==
    [valid |-> ValidOf(list), invalid |-> InvalidOf(list), total |-> Len(list),
     validCount |-> Len(ValidOf(list)), invalidCount |-> Len(InvalidOf(list))]

\* ExcelParser.validateEmails(emails)
ValidateEmails(list) ==
    LET uniqueValid == NewSet(ValidOf(list))
        invalid == InvalidOf(list)
    IN [valid |-> uniqueValid, invalid |-> invalid, total |-> Len(list),
        validCount |-> Len(uniqueValid), invalidCount |-> Len(invalid)]

\* Config.upload.maxFileSize and Config.upload.allowedTypes
MaxFileSize == 10485760   \* 10 * 1024 * 1024
AllowedTypes == {".xlsx", ".xls"}

\* the files the user has at hand: name as its pieces between the dots,
\* size in bytes, and what XLSX.read makes of the content (readable or not,
\* the sheets in workbook order, each sheet as sheet_to_json(header: 1)
\* gives it: rows of cells, the first row the headers)
FileIds == {"A", "B", "Broken", "Notes", "Big"}

FileOf(id) ==
    CASE id = "A" ->
            [name |-> <<"a", "xlsx">>, size |-> 2048, readable |-> TRUE,
             sheets |-> <<[name |-> "S1",
                           rows |-> <<<<"Email">>, <<"a@x.io">>, <<"bad">>>>]>>]
      [] id = "B" ->
            [name |-> <<"b", "v2", "XLSX">>, size |-> 4096, readable |-> TRUE,
             sheets |-> <<[name |-> "S1",
                           rows |-> <<<<"Email", "Name">>, <<" b@x.io", "bad">>>>],
                          [name |-> "S2",
                           rows |-> <<<<"", "Mail">>, <<"", "A@x.io">>, <<"", "">>,
                                      <<"", "b@x.io">>>>]>>]
      [] id = "Broken" ->
            [name |-> <<"c", "xls">>, size |-> 1024, readable |-> FALSE, sheets |-> <<>>]
      [] id = "Notes" ->
            [name |-> <<"notes", "txt">>, size |-> 100, readable |-> TRUE, sheets |-> <<>>]
      [] id = "Big" ->
            [name |-> <<"big", "xlsx">>, size |-> MaxFileSize + 1, readable |-> TRUE,
             sheets |-> <<>>]

\* toLowerCase() of the name pieces in use
ToLowerCase(piece) ==
    CASE piece = "XLSX" -> "xlsx"
      [] piece = "XLS" -> "xls"
      [] OTHER -> piece

\* '.' + piece
DotPlus(piece) ==
    CASE piece = "xlsx" -> ".xlsx"
      [] piece = "xls" -> ".xls"
      [] OTHER -> ".other"

\* App.validateFile(file)
ValidateFile(file) ==
    IF file.size > MaxFileSize THEN FALSE
    ELSE LET extension == DotPlus(ToLowerCase(file.name[Len(file.name)]))
         IN extension \in AllowedTypes

\* the ExcelParser object: the workbook is the file it was read from
NoParser == [workbook |-> Null, currentSheet |-> Null, sheetData |-> <<>>, hasData |-> FALSE]

\* ExcelParser.getSheets()
GetSheets(xp) ==
    IF xp.workbook = Null THEN <<>>
    ELSE LET sheets == FileOf(xp.workbook).sheets
         IN [k \in 1..Len(sheets) |-> sheets[k].name]

\* this.workbook.Sheets[sheetName]
Worksheet(xp, sheetName) ==
    LET sheets == FileOf(xp.workbook).sheets
    IN {k \in 1..Len(sheets) : sheets[k].name = sheetName}

\* ExcelParser.getSheetData(sheetName): the parser after the call (it
\* returns this.sheetData, or null when it leaves the parser as it is)
GetSheetData(xp, sheetName) ==
    IF xp.workbook = Null \/ Falsy(sheetName) \/ Worksheet(xp, sheetName) = {}
    THEN xp
    ELSE LET k == CHOOSE x \in Worksheet(xp, sheetName) : TRUE
         IN [xp EXCEPT !.currentSheet = sheetName,
                       !.sheetData = FileOf(xp.workbook).sheets[k].rows,
                       !.hasData = TRUE]

\* the call returned null
GetSheetDataNull(xp, sheetName) ==
    xp.workbook = Null \/ Falsy(sheetName) \/ Worksheet(xp, sheetName) = {}

\* ExcelParser.getColumns(sheetData)
GetColumns(sheetData) ==
    IF sheetData = <<>> THEN <<>>
    ELSE SelectSeq(sheetData[1], LAMBDA header : ~Falsy(header) /\ Trim(header) # "")

\* headers.findIndex(h => h === columnName), counted from 1; 0 for -1
FindIndex(headers, columnName) ==
    LET found == {k \in 1..Len(headers) : headers[k] = columnName}
    IN IF found = {} THEN 0 ELSE CHOOSE k \in found : \A j \in found : k <= j

RECURSIVE ColumnCells(_, _, _)
ColumnCells(sheetData, columnIndex, upTo) ==
    IF upTo < 2 THEN <<>>
    ELSE LET before == ColumnCells(sheetData, columnIndex, upTo - 1)
             value == sheetData[upTo][columnIndex]
         IN IF value # "" THEN Append(before, Trim(value)) ELSE before

\* ExcelParser.getColumnData(columnName)
GetColumnData(xp, columnName) ==
    IF ~xp.hasData \/ Falsy(columnName) THEN <<>>
    ELSE LET columnIndex == FindIndex(xp.sheetData[1], columnName)
         IN IF columnIndex = 0 THEN <<>>
            ELSE ColumnCells(xp.sheetData, columnIndex, Len(xp.sheetData))

\* validateEmails not called yet
NotValidated ==
    [valid |-> <<>>, invalid |-> <<>>, total |-> -1, validCount |-> -1,
     invalidCount |-> -1]

(* ----------------------- FormManager and App --------------------------- *)
TotalSteps == 4

\* FormManager.formData as the script and resetForm make it; emailResults
\* is the run whose result object it holds (0: the initial empty object)
NewFormData ==
    [file |-> Null, fileName |-> <<>>, fileSize |-> 0, selectedSheet |-> Null,
     selectedColumn |-> Null, emailList |-> <<>>, emailValidation |-> NotValidated,
     subject |-> "", body |-> "", emailResults |-> 0]

NewFormManager == [currentStep |-> 1, formData |-> NewFormData]

\* the editor's innerHTML when it is empty
EmptyEditor == "<p><br></p>"

NoProgress == [processed |-> 0, total |-> 0, success |-> 0, failure |-> 0]

\* the elements of the page the handlers read and write, as resetForm
\* leaves them
NewDom ==
    [emailSubject |-> "", editor |-> EmptyEditor, sendDisabled |-> FALSE,
     nextDisabled |-> TRUE, columnList |-> <<>>, sheetOptions |-> <<>>,
     sheetSelectionShown |-> FALSE, progress |-> NoProgress, resultsShown |-> FALSE,
     finalSuccessCount |-> 0, finalFailureCount |-> 0]

\* showStep sets currentStep without its range check
ShowStepUnchecked(fm, step) == [fm EXCEPT !.currentStep = step]

\* FormManager.showStep(step)
ShowStep(fm, step) ==
    IF step < 1 \/ step > TotalSteps THEN fm ELSE [fm EXCEPT !.currentStep = step]

\* FormManager.storeData(key, value)
StoreData(fm, key, value) == [fm EXCEPT !.formData[key] = value]

\* FormManager.getData(key)
GetData(fm, key) == fm.formData[key]

\* FormManager.validateStep(step)
ValidateStep(fm, step) ==
    CASE step = 1 -> fm.formData.file # Null
      [] step = 2 -> /\ fm.formData.selectedColumn # Null
                     /\ fm.formData.emailValidation # NotValidated
                     /\ fm.formData.emailValidation.validCount > 0
      [] step = 3 -> Trim(fm.formData.subject) # "" /\ fm.formData.body # ""
      [] step = 4 -> TRUE
      [] OTHER -> FALSE

\* resetForm goes back to step 1 and resets nothing else
ResetFormStepOnly(a) == [a EXCEPT !.fm = ShowStep(@, 1)]

\* FormManager.resetForm(): a is the application, its FormManager, its
\* ExcelParser and its page
ResetForm(a) ==
    [fm |-> ShowStep([currentStep |-> 1, formData |-> NewFormData], 1),
     xp |-> NoParser,
     dom |-> [NewDom EXCEPT !.sendDisabled = a.dom.sendDisabled,
                            !.finalSuccessCount = a.dom.finalSuccessCount,
                            !.finalFailureCount = a.dom.finalFailureCount]]

\* App.updateProgress(processed, total, success, failure)
UpdateProgress(d, processed, total, success, failure) ==
    [d EXCEPT !.progress = [processed |-> processed, total |-> total,
                            success |-> success, failure |-> failure]]

\* App.showResults(results)
ShowResults(d, results) ==
    [d EXCEPT !.resultsShown = TRUE,
              !.finalSuccessCount = results.successCount,
              !.finalFailureCount = results.failureCount]

\* App.handleSheetSelect(sheetName)
HandleSheetSelect(a, sheetName) ==
    IF Falsy(sheetName) THEN a
    ELSE LET fm == StoreData(a.fm, "selectedSheet", sheetName)
             xp == GetSheetData(a.xp, sheetName)
         IN IF GetSheetDataNull(a.xp, sheetName) \/ xp.sheetData = <<>>
            THEN [a EXCEPT !.fm = fm, !.xp = xp]
            ELSE [a EXCEPT !.fm = fm, !.xp = xp,
                           !.dom.columnList = GetColumns(xp.sheetData)]

\* App.handleColumnSelect(columnName)
HandleColumnSelect(a, columnName) ==
    LET columnData == GetColumnData(a.xp, columnName)
        v == ValidateEmails(columnData)
        fm == StoreData(StoreData(StoreData(a.fm, "selectedColumn", columnName),
                                  "emailList", v.valid),
                        "emailValidation", v)
    IN [a EXCEPT !.fm = fm, !.dom.nextDisabled = ~(v.validCount > 0)]

\* App.handleFileSelect(event) up to its await of parseExcelFile; the file
\* has passed validateFile
FileChosen(a, id) ==
    LET file == FileOf(id)
    IN [a EXCEPT !.fm = StoreData(StoreData(StoreData(a.fm, "file", id),
                                            "fileName", file.name),
                                  "fileSize", file.size)]

\* reader.onload for the file and the rest of App.handleFileSelect
FileRead(a, id) ==
    IF ~FileOf(id).readable THEN a
    ELSE LET parsed == [a EXCEPT !.xp.workbook = id]
             sheets == GetSheets(parsed.xp)
         IN IF Len(sheets) = 0 THEN parsed
            ELSE LET listed == IF Len(sheets) > 1
                               THEN [parsed EXCEPT !.dom.sheetOptions = sheets,
                                                   !.dom.sheetSelectionShown = TRUE]
                               ELSE parsed
                     stored == [listed EXCEPT
                                   !.fm = StoreData(@, "selectedSheet", sheets[1])]
                     selected == HandleSheetSelect(stored, sheets[1])
                 IN [selected EXCEPT !.fm = ShowStep(@, 2)]

\* the texts typed into the subject field and the contents of the editor
SubjectInputs == {" ", " Hi "}
EditorContents == {EmptyEditor, "<p>x</p>"}

\* (without the confirmation dialog)
SendGuardsNoConfirm(subject, body, list, confirmed) ==
    IF Falsy(subject) THEN "no subject"
    ELSE IF Falsy(body) \/ body = EmptyEditor THEN "no body"
    ELSE IF Len(list) = 0 THEN "no recipients"
    ELSE "send"

\* the early returns of App.handleSendEmails, in the order of the code;
\* confirmed is the user's answer to confirm(...)
SendGuards(subject, body, list, confirmed) ==
    IF Falsy(subject) THEN "no subject"
    ELSE IF Falsy(body) \/ body = EmptyEditor THEN "no body"
    ELSE IF Len(list) = 0 THEN "no recipients"
    ELSE IF ~confirmed THEN "cancelled"
    ELSE "send"

\* (the send button left as it is)
SendingLeftEnabled(d) == d

\* sendButton.disabled = true, before the run
Sending(d) == [d EXCEPT !.sendDisabled = TRUE]

\* sendButton.disabled = false, in the finally
SendingOver(d) == [d EXCEPT !.sendDisabled = FALSE]

\* what the progress callback can reach: the service's results, the list and
\* the loop position of the run that calls it, the FormManager and the page
World(results, list, position, fm, d) ==
    [results |-> results, emailList |-> list, position |-> position,
     formData |-> fm.formData, currentStep |-> fm.currentStep, dom |-> d]

\* the parts of the world that differ
Changed(before, after) == {part \in DOMAIN before : before[part] # after[part]}

\* (a callback that keeps the snapshot in formData)
OnProgressStoring(w, snapshot) ==
    [w EXCEPT !.formData.emailResults = snapshot.processed,
              !.dom = UpdateProgress(@, snapshot.processed, snapshot.total,
                                     snapshot.success, snapshot.failure)]

\* the callback App.handleSendEmails passes to sendBulkEmails
OnProgress(w, snapshot) ==
    [w EXCEPT !.dom = UpdateProgress(@, snapshot.processed, snapshot.total,
                                     snapshot.success, snapshot.failure)]

(* ------------------- the backend of /api/send-email -------------------- *)
\* the deployments of the backend: the Lambda function and the Express server
Backends == {"lambda", "express"}

\* the JSON objects the backends answer with and sendEmail returns: has is
\* the set of properties present (sentAt and attemptedAt are timestamps)
JsObject(has, success, email, subject, errorMessage, errorCode, messageId, error) ==
    [has |-> has, success |-> success, email |-> email, subject |-> subject,
     errorMessage |-> errorMessage, errorCode |-> errorCode, messageId |-> messageId,
     error |-> error]

SentBody(toEmail, subject, messageId) ==
    JsObject({"success", "email", "subject", "sentAt", "messageId"},
             TRUE, toEmail, subject, Absent, Absent, messageId, Absent)

FailedBody(toEmail, subject, errorMessage, errorCode) ==
    JsObject({"success", "email", "subject", "attemptedAt", "errorMessage", "errorCode"}
                \ ({IF toEmail = Absent THEN "email" ELSE "-"}
                   \cup {IF subject = Absent THEN "subject" ELSE "-"}),
             FALSE, toEmail, subject, errorMessage, errorCode, Absent, Absent)

\* { success: false, error: ... }
ErrorBody(error) ==
    JsObject({"success", "error"}, FALSE, Absent, Absent, Absent, Absent, Absent, error)

\* { error: 'Not found', path: path }
NotFoundBody == JsObject({"error", "path"}, FALSE, Absent, Absent, Absent, Absent, Absent,
                         "Not found")

\* { status: 'ok', message: ... }
HealthBody == JsObject({"status", "message"}, FALSE, Absent, Absent, Absent, Absent,
                       Absent, Absent)

NoBody == JsObject({}, FALSE, Absent, Absent, Absent, Absent, Absent, Absent)

\* EMAIL_API_KEY || SENDGRID_API_KEY || BREVO_API_KEY of the environment
ApiKeys == {"", "SG.key", "xkeysib-key"}

\* what sendEmail is called with
Addresses == {"a@x.io", ""}
Subjects == {"Hi", ""}
Bodies == {"<p>x</p>", ""}

\* the provider's answer: a transport error, or a status with a body that is
\* empty, a JSON object (without details, with a messageId, with a message)
\* or no JSON at all, with or without an x-message-id header
ProviderStatuses == {200, 202, 400, 503}
ProviderBodies == {"", "{}", "{messageId}", "{message}", "<html>"}
ProviderAnswers ==
    {[kind |-> "error", status |-> 0, body |-> "", header |-> Absent]}
    \cup [kind : {"response"}, status : ProviderStatuses, body : ProviderBodies,
          header : {Absent, "hdr-1"}]

IsJson(text) == text \in {"{}", "{messageId}", "{message}"}

\* the properties the handlers read of the parsed provider body
ParsedBody(text) ==
    [messageId |-> IF text = "{messageId}" THEN "msg-1" ELSE Absent,
     message |-> IF text = "{message}" THEN "denied" ELSE Absent]

Ok(status) == status >= 200 /\ status < 300

\* `${isBrevoKey ? 'brevo' : 'sg'}-${Date.now()}-${random}`
GeneratedId(key) == IF key = "xkeysib-key" THEN "brevo-generated" ELSE "sg-generated"

\* what a handler hands back: it rejects, or it answers with a status, the
\* CORS headers or not, and a body; awaits: it called the provider and waits
Reply(statusCode, cors, body) ==
    [rejects |-> FALSE, awaits |-> FALSE, statusCode |-> statusCode, cors |-> cors,
     body |-> body]

Rejection == [rejects |-> TRUE, awaits |-> FALSE, statusCode |-> 0, cors |-> FALSE,
              body |-> NoBody]

AwaitsProvider == [rejects |-> FALSE, awaits |-> TRUE, statusCode |-> 0, cors |-> FALSE,
                   body |-> NoBody]

\* the events the function is invoked with: method and path are in
\* requestContext.http (format "http") or in httpMethod and path (format
\* "rest"); the body is missing, a string that is no JSON, or a JSON object
\* with or without each of the three fields
EventFormats == {"http", "rest"}
Methods == {"GET", "POST", "OPTIONS", "PUT"}
Paths == {"/api/send-email", "/send-email", "/api/health", "/health", "/api/other"}

\* the event bodies: none, a string that is no JSON, or a JSON object
EventBody(kind, toEmail, subject, body) ==
    [kind |-> kind, toEmail |-> toEmail, subject |-> subject, body |-> body]

EventBodies ==
    {EventBody("none", Absent, Absent, Absent), EventBody("invalid", Absent, Absent, Absent)}
    \cup {EventBody("json", toEmail, subject, body) :
              toEmail \in {"a@x.io", Absent}, subject \in {"Hi", ""},
              body \in {"<p>x</p>", Absent}}

Events == [format : EventFormats, method : Methods, path : Paths, body : EventBodies]

\* exports.handler up to its await of makeRequest (or its return)
LambdaReceives(key, event) ==
    IF event.format = "http" /\ event.method = "OPTIONS" THEN Reply(200, TRUE, NoBody)
    ELSE IF event.body.kind = "invalid" THEN Rejection
    ELSE IF event.path \in {"/api/health", "/health"} /\ event.method = "GET"
         THEN Reply(200, TRUE, HealthBody)
    ELSE IF event.path \in {"/api/send-email", "/send-email"} /\ event.method = "POST"
         THEN IF Falsy(key)
              THEN Reply(500, TRUE, ErrorBody("Email API key not configured"))
              ELSE IF Falsy(event.body.toEmail) \/ Falsy(event.body.subject)
                      \/ Falsy(event.body.body)
                   THEN Reply(400, TRUE, ErrorBody("Missing required fields"))
                   ELSE AwaitsProvider
    ELSE Reply(404, TRUE, NotFoundBody)

LambdaAnswersNoParseError(key, event, answer) ==
    LET toEmail == event.body.toEmail
        subject == event.body.subject
        data == ParsedBody(answer.body)
    IN IF answer.kind = "error"
       THEN Reply(500, TRUE, FailedBody(toEmail, subject, "transport", "SERVER_ERROR"))
       ELSE IF Ok(answer.status)
            THEN Reply(200, TRUE,
                       SentBody(toEmail, subject,
                                Or(answer.header, Or(data.messageId, GeneratedId(key)))))
            ELSE Reply(answer.status, TRUE,
                       FailedBody(toEmail, subject, Or(data.message, "HTTP status"),
                                  ToString(answer.status)))

\* exports.handler after makeRequest has settled: JSON.parse(response.body ||
\* '{}') throws for a body that is not JSON, and the catch answers 500
LambdaAnswers(key, event, answer) ==
    LET toEmail == event.body.toEmail
        subject == event.body.subject
    IN IF answer.kind = "response" /\ answer.body # "" /\ ~IsJson(answer.body)
       THEN Reply(500, TRUE, FailedBody(toEmail, subject, "Unexpected token",
                                        "SERVER_ERROR"))
       ELSE LambdaAnswersNoParseError(key, event, answer)

\* app.post('/api/send-email') up to its await of fetch (or its response)
ExpressReceives(key, req) ==
    IF Falsy(req.toEmail) \/ Falsy(req.subject) \/ Falsy(req.body)
    THEN Reply(400, TRUE, ErrorBody("Missing required fields"))
    ELSE AwaitsProvider

\* app.post('/api/send-email') after fetch has settled:
\* response.json().catch(() => ({})) turns every unreadable body into {}
ExpressAnswers(key, req, answer) ==
    LET data == IF IsJson(answer.body) THEN ParsedBody(answer.body) ELSE ParsedBody("{}")
    IN IF answer.kind = "error"
       THEN Reply(500, TRUE, FailedBody(req.toEmail, req.subject, "transport",
                                        "SERVER_ERROR"))
       ELSE IF Ok(answer.status)
            THEN Reply(200, TRUE,
                       SentBody(req.toEmail, req.subject,
                                Or(answer.header, Or(data.messageId, GeneratedId(key)))))
            ELSE Reply(answer.status, TRUE,
                       FailedBody(req.toEmail, req.subject,
                                  Or(data.message, "HTTP status"),
                                  ToString(answer.status)))

\* sendEmail(toEmail, subject, body) once fetch has settled with the
\* backend's reply: the parsed body as it is, or the catch's object when
\* fetch or response.json() throws (an empty body is no JSON)
SendEmailResult(toEmail, subject, reply) ==
    IF reply.rejects \/ reply.body.has = {}
    THEN FailedBody(toEmail, subject, "Network error or API connection failed",
                    "NETWORK_ERROR")
    ELSE reply.body

\* the handlers not invoked: the event, the environment's key, the provider
\* requests made, the provider's answer, and what the Lambda handler and the
\* Express endpoint have answered
NotInvoked ==
    [stage |-> "none", key |-> "",
     event |-> [format |-> "http", method |-> "GET", path |-> "/health",
                body |-> EventBody("none", Absent, Absent, Absent)],
     requests |-> 0, answer |-> CHOOSE a \in ProviderAnswers : a.kind = "error",
     lambda |-> Rejection, express |-> Rejection]

\* no sendEmail call under way
NoSend ==
    [stage |-> "idle", backend |-> "lambda", key |-> "", toEmail |-> "", subject |-> "",
     body |-> "", answer |-> CHOOSE a \in ProviderAnswers : a.kind = "error",
     reply |-> Rejection, result |-> NoBody]

\* no file being read; history: what the progress callbacks have changed
\* of the world they can reach
NewSession == [reading |-> {}, changedByCallback |-> {}]

(* -------------------------------- Init --------------------------------- *)
\* the service object as the script that defines it leaves it
Fresh ==
    /\ ledger = EmptyLedger
    /\ pc = [r \in Runs |-> "idle"]
    /\ emailList = [r \in Runs |-> <<>>]
    /\ i = [r \in Runs |-> 0]
    /\ pending = [r \in Runs |-> {}]
    /\ settled = [r \in Runs |-> <<>>]
    /\ batches = [r \in Runs |-> <<>>]
    /\ sent = [r \in Runs |-> <<>>]
    /\ threw = [r \in Runs |-> {}]
    /\ recorded = [r \in Runs |-> EmptyLedger]
    /\ delays = [r \in Runs |-> <<>>]
    /\ progress = [r \in Runs |-> <<>>]
    /\ observed = [r \in Runs |-> <<>>]
    /\ result = [r \in Runs |-> NoResult]
    /\ attached = [r \in Runs |-> FALSE]
    /\ overlapped = [r \in Runs |-> FALSE]
    /\ resetDuring = [r \in Runs |-> FALSE]
    /\ wire = NoSend
    /\ validation = NotValidated
    /\ formManager = NewFormManager
    /\ excelParser = NoParser
    /\ dom = NewDom
    /\ ui = NewSession
    /\ invocation = NotInvoked

Init ==
    /\ cfgBatchSize \in BatchSizeConfigs
    /\ cfgDelay \in DelayConfigs
    /\ Fresh
    /\ emails = <<>>

\* a deployment whose Config.email.batchSize is below 1
InitMalformed ==
    /\ cfgBatchSize \in MalformedBatchSizes
    /\ cfgDelay \in DelayConfigs
    /\ Fresh
    /\ emails = <<>>

(* ------------------------------- actions ------------------------------- *)
\* the continuation after `await Promise.all(batchPromises)` of the iteration
\* with i = at, given the values the promises of the batch were fulfilled
\* with: the forEach, the progress callback, and then either the setTimeout
\* or the return.  led, res and att are this.results, the results handed out
\* and their sharing as the continuation finds them.
ResumeBatch(r, done, at, batch, total, led, res, att) ==
    LET batchResults == PromiseAll(done, at, Len(batch))
        after == Categorize(led, batchResults)
        seen == LedgerAtCallback(led, after)
        processed == Processed(at, BatchSize, total)
    IN /\ ledger' = after
       /\ recorded' = [recorded EXCEPT ![r] = Categorize(@, batchResults)]
       /\ progress' = [progress EXCEPT ![r] = Append(@, Snapshot(processed, total, seen))]
       /\ observed' = [observed EXCEPT ![r] = Append(@, OwnCount(seen, r, at, Len(batch)))]
       /\ IF MoreBatches(at, BatchSize, total)
          THEN /\ pc' = [pc EXCEPT ![r] = "delay"]
               /\ delays' = [delays EXCEPT ![r] = Append(@, Delay)]
               /\ i' = [i EXCEPT ![r] = at]
               /\ result' = Aliased(res, att, after)
               /\ attached' = att
          ELSE /\ pc' = [pc EXCEPT ![r] = "done"]
               /\ delays' = delays
               /\ i' = [i EXCEPT ![r] = at + BatchSize]
               /\ result' = [Aliased(res, att, after) EXCEPT ![r] = RunResult(after, total)]
               /\ attached' = [att EXCEPT ![r] = TRUE]

\* one iteration of the loop from the slice to its first suspension: the
\* sends of the batch are issued and the run waits for them; Promise.all of
\* an empty batch is already fulfilled, so the continuation runs in the same
\* turn
StartBatch(r, at, list, led, res, att) ==
    LET batch == Slice(list, at, at + BatchSize)
        calls == IssueBatch(r, at, batch)
    IN /\ batches' = [batches EXCEPT ![r] = Append(@, batch)]
       /\ sent' = [sent EXCEPT ![r] = @ \o calls]
       /\ pending' = [pending EXCEPT ![r] = {calls[k].idx : k \in 1..Len(calls)}]
       /\ settled' = [settled EXCEPT ![r] = <<>>]
       /\ IF Len(calls) = 0
          THEN ResumeBatch(r, <<>>, at, batch, Len(list), led, res, att)
          ELSE /\ pc' = [pc EXCEPT ![r] = "await_all"]
               /\ i' = [i EXCEPT ![r] = at]
               /\ ledger' = led
               /\ result' = res
               /\ attached' = att
               /\ UNCHANGED <<recorded, delays, progress, observed>>

\* sendBulkEmails(list, ...) up to its first suspension point
SendBulkEmails(r, list) ==
    /\ pc[r] = "idle"
    /\ \A q \in Runs : q < r => pc[q] # "idle"
    /\ SumLen(emailList, Runs) + Len(list) <= MaxTotal
    /\ emailList' = [emailList EXCEPT ![r] = list]
    /\ overlapped' = [q \in Runs |->
                        IF q = r THEN \E o \in Runs : InFlight(o)
                        ELSE overlapped[q] \/ InFlight(q)]
    /\ IF 0 < Len(list)
       THEN StartBatch(r, 0, list, EmptyLedger, result, [q \in Runs |-> FALSE])
       ELSE /\ pc' = [pc EXCEPT ![r] = "done"]
            /\ ledger' = EmptyLedger
            /\ i' = [i EXCEPT ![r] = 0]
            /\ result' = [result EXCEPT ![r] = RunResult(EmptyLedger, Len(list))]
            /\ attached' = [q \in Runs |-> q = r]
            /\ UNCHANGED <<batches, sent, pending, settled, recorded, delays, progress,
                           observed>>
    /\ UNCHANGED <<cfgBatchSize, cfgDelay, threw, resetDuring>>

\* the fetch and the response.json() of one in-flight send complete and its
\* sendEmail promise settles; when that settles Promise.all, the continuation
\* of sendBulkEmails runs in the same turn (promise reactions are microtasks)
Settle(r, k, resp) ==
    /\ pc[r] = "await_all"
    /\ k \in pending[r]
    /\ LET out == Outcome(r, k, SendEmail(emailList[r][k], resp))
           done == Append(settled[r], out)
           left == pending[r] \ {k}
           batch == batches[r][Len(batches[r])]
       IN /\ pending' = [pending EXCEPT ![r] = left]
          /\ settled' = [settled EXCEPT ![r] = done]
          /\ threw' = [threw EXCEPT ![r] = IF resp \in {"fetch_throws", "json_throws"}
                                            THEN @ \cup {k} ELSE @]
          /\ IF SomeRejected(done, i[r], Len(batch))
             THEN \* the await throws and the promise of sendBulkEmails rejects
                  /\ pc' = [pc EXCEPT ![r] = "rejected"]
                  /\ UNCHANGED <<ledger, recorded, delays, progress, observed, i, result,
                                 attached>>
             ELSE IF BatchSettled(left)
                  THEN ResumeBatch(r, done, i[r], batch, Len(emailList[r]), ledger,
                                   result, attached)
                  ELSE UNCHANGED <<ledger, recorded, delays, progress, observed, pc, i,
                                   result, attached>>
    /\ UNCHANGED <<cfgBatchSize, cfgDelay, emailList, batches, sent, overlapped,
                   resetDuring>>

\* the inter-batch timer fires: i += batchSize and the next iteration (the
\* loop condition i < emailList.length holds: the timer was set only because
\* i + batchSize < emailList.length)
TimerFires(r) ==
    /\ pc[r] = "delay"
    /\ Len(batches[r]) < MaxBatches
    /\ StartBatch(r, i[r] + BatchSize, emailList[r], ledger, result, attached)
    /\ UNCHANGED <<cfgBatchSize, cfgDelay, emailList, threw, overlapped, resetDuring>>

\* (empties only the success array)
ResetSuccessOnly ==
    /\ ledger' = [ledger EXCEPT !.success = <<>>]
    /\ attached' = [q \in Runs |-> FALSE]
    /\ resetDuring' = [r \in Runs |-> resetDuring[r] \/ InFlight(r)]
    /\ UNCHANGED <<cfgBatchSize, cfgDelay, pc, emailList, i, pending, settled, batches,
                   sent, threw, recorded, delays, progress, observed, result, overlapped>>

\* (empties the two arrays in place instead of installing new ones)
ResetInPlace ==
    /\ ledger' = EmptyLedger
    /\ result' = Aliased(result, attached, EmptyLedger)
    /\ resetDuring' = [r \in Runs |-> resetDuring[r] \/ InFlight(r)]
    /\ UNCHANGED <<cfgBatchSize, cfgDelay, pc, emailList, i, pending, settled, batches,
                   sent, threw, recorded, delays, progress, observed, attached, overlapped>>

\* EmailService.reset()
Reset ==
    /\ ledger' = EmptyLedger
    /\ attached' = [q \in Runs |-> FALSE]
    /\ resetDuring' = [r \in Runs |-> resetDuring[r] \/ InFlight(r)]
    /\ UNCHANGED <<cfgBatchSize, cfgDelay, pc, emailList, i, pending, settled, batches,
                   sent, threw, recorded, delays, progress, observed, result, overlapped>>

\* the variables of the bulk run and of the ledger
runVars == <<cfgBatchSize, cfgDelay, ledger, pc, emailList, i, pending, settled, batches,
             sent, threw, recorded, delays, progress, observed, result, attached,
             overlapped, resetDuring>>

\* the bookkeeping of the runs, without the ledger
schedulerVars == <<cfgBatchSize, cfgDelay, pc, emailList, i, pending, settled, batches,
                   sent, threw, recorded, delays, progress, observed, result, attached,
                   overlapped, resetDuring>>

\* the variables the bulk run never touches
appVars == <<formManager, excelParser, dom, ui>>

otherVars == <<wire, emails, validation, invocation, appVars>>

\* any caller, at any time: invocations and reset() may overlap a run
Next ==
    \/ \E r \in Runs, list \in EmailLists : SendBulkEmails(r, list) /\ UNCHANGED otherVars
    \/ \E r \in Runs, k \in 1..MaxTotal, resp \in Responses :
            Settle(r, k, resp) /\ UNCHANGED otherVars
    \/ \E r \in Runs : TimerFires(r) /\ UNCHANGED otherVars
    \/ Reset /\ UNCHANGED otherVars

Spec == Init /\ [][Next]_vars

\* callers that start a run or call reset() only while no run is in flight
NextSerial ==
    \/ \E r \in Runs, list \in EmailLists :
            Quiet /\ SendBulkEmails(r, list) /\ UNCHANGED otherVars
    \/ \E r \in Runs, k \in 1..MaxTotal, resp \in Responses :
            Settle(r, k, resp) /\ UNCHANGED otherVars
    \/ \E r \in Runs : TimerFires(r) /\ UNCHANGED otherVars
    \/ Quiet /\ Reset /\ UNCHANGED otherVars

SpecSerial == Init /\ [][NextSerial]_vars

\* the same callers, with a network that answers every send and timers that
\* fire: a step of a suspended run that can be taken is eventually taken
Progresses ==
    \A r \in Runs :
        /\ WF_vars(\E k \in 1..MaxTotal, resp \in Responses :
                        Settle(r, k, resp) /\ UNCHANGED otherVars)
        /\ WF_vars(TimerFires(r) /\ UNCHANGED otherVars)

SpecSerialLive == SpecSerial /\ Progresses

\* the program with a batch size below 1 configured
SpecMalformed == InitMalformed /\ [][Next]_vars

(* ------------------- one sendEmail call, end to end -------------------- *)
\* sendBulkEmails([toEmail], subject, body) up to the await of fetch in its
\* one sendEmail(toEmail, subject, body): the ledger is new and the request
\* is on its way to the backend the page is deployed with
SendEmailCalled(backend, key, toEmail, subject, body) ==
    /\ wire.stage = "idle"
    /\ backend = "express" => ~Falsy(key)   \* the server exits at start without a key
    /\ wire' = [NoSend EXCEPT !.stage = "at_backend", !.backend = backend, !.key = key,
                              !.toEmail = toEmail, !.subject = subject, !.body = body]
    /\ ledger' = EmptyLedger
    /\ UNCHANGED <<schedulerVars, emails, validation, invocation, appVars>>

\* the request as the backend finds it: JSON.stringify of the three fields
Request(w) == EventBody("json", w.toEmail, w.subject, w.body)

Event(w) ==
    [format |-> "http", method |-> "POST", path |-> "/api/send-email", body |-> Request(w)]

\* the backend handles the request up to its await of the provider, or up to
\* its response
BackendReceives ==
    /\ wire.stage = "at_backend"
    /\ LET reply == IF wire.backend = "lambda" THEN LambdaReceives(wire.key, Event(wire))
                    ELSE ExpressReceives(wire.key, Request(wire))
       IN wire' = [wire EXCEPT !.stage = IF reply.awaits THEN "at_provider" ELSE "replied",
                               !.reply = reply]
    /\ UNCHANGED <<runVars, emails, validation, invocation, appVars>>

\* the provider answers (or the connection to it fails) and the backend
\* responds
ProviderResponds(answer) ==
    /\ wire.stage = "at_provider"
    /\ wire' = [wire EXCEPT !.stage = "replied", !.answer = answer,
                            !.reply = IF wire.backend = "lambda"
                                      THEN LambdaAnswers(wire.key, Event(wire), answer)
                                      ELSE ExpressAnswers(wire.key, Request(wire), answer)]
    /\ UNCHANGED <<runVars, emails, validation, invocation, appVars>>

\* sendEmail returns its result for the reply and the forEach of
\* sendBulkEmails files it
SendEmailSettles(reply) ==
    LET sendResult == SendEmailResult(wire.toEmail, wire.subject, reply)
    IN /\ wire' = [wire EXCEPT !.stage = "recorded", !.reply = reply,
                               !.result = sendResult]
       /\ ledger' = Categorize(ledger, <<sendResult>>)
       /\ UNCHANGED <<schedulerVars, emails, validation, invocation, appVars>>

\* the fetch of sendEmail fails before any response arrives
FetchFails ==
    /\ wire.stage \in {"at_backend", "at_provider"}
    /\ SendEmailSettles(Rejection)

\* the response arrives
SendEmailReturns ==
    /\ wire.stage = "replied"
    /\ SendEmailSettles(wire.reply)

\* the run is over and the caller may start the next
NextCall ==
    /\ wire.stage = "recorded"
    /\ wire' = NoSend
    /\ UNCHANGED <<runVars, emails, validation, invocation, appVars>>

InitBackend ==
    /\ cfgBatchSize = 0
    /\ cfgDelay = 0
    /\ Fresh
    /\ emails = <<>>

NextBackend ==
    \/ \E backend \in Backends, key \in ApiKeys, toEmail \in Addresses,
          subject \in Subjects, body \in Bodies :
            SendEmailCalled(backend, key, toEmail, subject, body)
    \/ BackendReceives
    \/ \E answer \in ProviderAnswers : ProviderResponds(answer)
    \/ FetchFails
    \/ SendEmailReturns
    \/ NextCall

\* single sends through either backend
SpecBackend == InitBackend /\ [][NextBackend]_vars

(* ------------------------------------------------------------------------ *)
(* The handlers invoked on arbitrary events                                   *)
(* ------------------------------------------------------------------------ *)
\* the event is a POST of the Express route: express.json() has given the
\* endpoint an object (an empty one when the request has no body)
ExpressRoutes(event) ==
    event.method = "POST" /\ event.path = "/api/send-email" /\ event.body.kind # "invalid"

\* the Express endpoint is not asked
NotAsked == Reply(0, FALSE, NoBody)

\* exports.handler is invoked on the event and runs up to its return, its
\* rejection or its await of makeRequest, which issues the one provider
\* request; the Express endpoint, which only runs with a key, is given the
\* same request
HandlerInvoked(key, event) ==
    /\ invocation.stage = "none"
    /\ LET lambda == LambdaReceives(key, event)
           express == IF ExpressRoutes(event) /\ ~Falsy(key)
                      THEN ExpressReceives(key, event.body)
                      ELSE NotAsked
       IN invocation' =
            [invocation EXCEPT !.stage = IF lambda.awaits \/ express.awaits
                                         THEN "awaiting" ELSE "returned",
                               !.key = key, !.event = event,
                               !.requests = IF lambda.awaits THEN 1 ELSE 0,
                               !.lambda = lambda, !.express = express]
    /\ UNCHANGED <<runVars, wire, emails, validation, appVars>>

\* makeRequest (and fetch of the Express endpoint) settles with the
\* provider's answer or a transport error, and the handlers return
MakeRequestSettles(answer) ==
    /\ invocation.stage = "awaiting"
    /\ invocation' =
         [invocation EXCEPT
            !.stage = "returned", !.answer = answer,
            !.lambda = IF invocation.lambda.awaits
                       THEN LambdaAnswers(invocation.key, invocation.event, answer)
                       ELSE invocation.lambda,
            !.express = IF invocation.express.awaits
                        THEN ExpressAnswers(invocation.key, invocation.event.body, answer)
                        ELSE invocation.express]
    /\ UNCHANGED <<runVars, wire, emails, validation, appVars>>

\* the invocation is over; the function takes the next event
InvocationEnds ==
    /\ invocation.stage = "returned"
    /\ invocation' = NotInvoked
    /\ UNCHANGED <<runVars, wire, emails, validation, appVars>>

InitHandlers ==
    /\ cfgBatchSize = 0
    /\ cfgDelay = 0
    /\ Fresh
    /\ emails = <<>>

NextHandlers ==
    \/ \E key \in ApiKeys, event \in Events : HandlerInvoked(key, event)
    \/ \E answer \in ProviderAnswers : MakeRequestSettles(answer)
    \/ InvocationEnds

\* the Lambda handler and the Express endpoint on one event after another
SpecHandlers == InitHandlers /\ [][NextHandlers]_vars

(* ------------------------ validateEmails calls ------------------------- *)
\* the longest column validated
MaxEmails == 3

RECURSIVE ListsUpTo(_)
ListsUpTo(n) ==
    IF n = 0 THEN {<<>>}
    ELSE LET shorter == ListsUpTo(n - 1)
         IN shorter \cup {Append(l, c) : l \in {x \in shorter : Len(x) = n - 1},
                                         c \in CellTexts}

\* a column of up to MaxEmails cells has been read
InitValidate ==
    /\ cfgBatchSize = 0
    /\ cfgDelay = 0
    /\ Fresh
    /\ emails \in ListsUpTo(MaxEmails)

\* ExcelParser.validateEmails(emails) is called and returns
ValidateEmailsCalled ==
    /\ validation = NotValidated
    /\ validation' = ValidateEmails(emails)
    /\ UNCHANGED <<runVars, wire, emails, invocation, appVars>>

NextValidate == ValidateEmailsCalled

\* validateEmails on every column of up to MaxEmails cells
SpecValidate == InitValidate /\ [][NextValidate]_vars

(* ------------------------------------------------------------------------ *)
(* A column read from a sheet and validated                                   *)
(* ------------------------------------------------------------------------ *)
\* the rows sheet_to_json (header: 1, defval: '') gives for a sheet with the
\* one column Email and up to n rows below the header, blank cells as ''
RECURSIVE SheetsUpTo(_)
SheetsUpTo(n) ==
    IF n = 0 THEN {<<<<"Email">>>>}
    ELSE LET shorter == SheetsUpTo(n - 1)
         IN shorter \cup {Append(rows, <<c>>) : rows \in {x \in shorter : Len(x) = n},
                                                c \in CellTexts \cup {""}}

\* ExcelParser.getSheetData(sheetName) has read such a sheet of the workbook
GetSheetDataCalled(rows) ==
    /\ ~excelParser.hasData
    /\ excelParser' = [workbook |-> "Any", currentSheet |-> "S1", sheetData |-> rows,
                       hasData |-> TRUE]
    /\ UNCHANGED <<runVars, wire, emails, validation, invocation, formManager, dom, ui>>

\* App.handleColumnSelect: getColumnData of the column, then validateEmails
\* of what it returned
ColumnValidated ==
    /\ excelParser.hasData
    /\ validation = NotValidated
    /\ emails' = GetColumnData(excelParser, "Email")
    /\ validation' = ValidateEmails(emails')
    /\ UNCHANGED <<runVars, wire, invocation, appVars>>

InitColumn ==
    /\ cfgBatchSize = 0
    /\ cfgDelay = 0
    /\ Fresh
    /\ emails = <<>>

NextColumn ==
    \/ \E rows \in SheetsUpTo(MaxEmails) : GetSheetDataCalled(rows)
    \/ ColumnValidated

\* every column of up to MaxEmails cells, blank ones included, read and
\* validated
SpecColumn == InitColumn /\ [][NextColumn]_vars

(* --------------------------- the application --------------------------- *)
\* The page shows one step at a time (showStep hides the others), and the user
\* reaches the controls of the step shown: the upload area in step 1; the
\* sheet selector, the column list, nextToCompose and backToUpload in step 2;
\* the subject, the editor, backToColumn and sendEmails in step 3; startOver
\* in step 4, during the run as well as after it.

\* the application as the handlers find it
TheApp == [fm |-> formManager, xp |-> excelParser, dom |-> dom]

\* ... and as they leave it
AppBecomes(a) ==
    /\ formManager' = a.fm
    /\ excelParser' = a.xp
    /\ dom' = a.dom

\* a file is chosen or dropped on the upload area of step 1, by a user who
\* waits for one file to be read before choosing the next:
\* App.handleFileSelect up to its await
HandleFileSelect(id) ==
    /\ formManager.currentStep = 1
    /\ ui.reading = {}
    /\ IF ValidateFile(FileOf(id))
       THEN /\ AppBecomes(FileChosen(TheApp, id))
            /\ ui' = [ui EXCEPT !.reading = @ \cup {id}]
       ELSE UNCHANGED appVars
    /\ UNCHANGED <<runVars, wire, emails, validation, invocation>>

\* the FileReader of a file is done and handleFileSelect goes on
FileLoaded(id) ==
    /\ id \in ui.reading
    /\ AppBecomes(FileRead(TheApp, id))
    /\ ui' = [ui EXCEPT !.reading = @ \ {id}]
    /\ UNCHANGED <<runVars, wire, emails, validation, invocation>>

\* the user picks a sheet in the sheet selector of step 2
SheetSelected(k) ==
    /\ formManager.currentStep = 2
    /\ dom.sheetSelectionShown
    /\ k \in 1..Len(dom.sheetOptions)
    /\ AppBecomes(HandleSheetSelect(TheApp, dom.sheetOptions[k]))
    /\ UNCHANGED <<runVars, wire, emails, validation, invocation, ui>>

\* the user clicks a column of the column list of step 2
ColumnClicked(k) ==
    /\ formManager.currentStep = 2
    /\ k \in 1..Len(dom.columnList)
    /\ AppBecomes(HandleColumnSelect(TheApp, dom.columnList[k]))
    /\ UNCHANGED <<runVars, wire, emails, validation, invocation, ui>>

\* click on nextToCompose (step 2), when it is enabled
NextToCompose ==
    /\ formManager.currentStep = 2
    /\ ~dom.nextDisabled
    /\ formManager' = IF ValidateStep(formManager, 2) THEN ShowStep(formManager, 3)
                      ELSE formManager
    /\ UNCHANGED <<runVars, wire, emails, validation, invocation, excelParser, dom, ui>>

\* click on backToUpload (step 2)
BackToUpload ==
    /\ formManager.currentStep = 2
    /\ formManager' = ShowStep(formManager, 1)
    /\ UNCHANGED <<runVars, wire, emails, validation, invocation, excelParser, dom, ui>>

\* click on backToColumn (step 3)
BackToColumn ==
    /\ formManager.currentStep = 3
    /\ formManager' = ShowStep(formManager, 2)
    /\ UNCHANGED <<runVars, wire, emails, validation, invocation, excelParser, dom, ui>>

\* the user types the subject (step 3)
SubjectTyped(text) ==
    /\ formManager.currentStep = 3
    /\ dom' = [dom EXCEPT !.emailSubject = text]
    /\ UNCHANGED <<runVars, wire, emails, validation, invocation, formManager, excelParser, ui>>

\* the user edits the body (step 3)
BodyEdited(html) ==
    /\ formManager.currentStep = 3
    /\ dom' = [dom EXCEPT !.editor = html]
    /\ UNCHANGED <<runVars, wire, emails, validation, invocation, formManager, excelParser, ui>>

\* click on sendEmails (step 3) when it is enabled: App.handleSendEmails up
\* to its await of sendBulkEmails, or to one of its early returns
HandleSendEmails(confirmed) ==
    /\ formManager.currentStep = 3
    /\ ~dom.sendDisabled
    /\ LET subject == Trim(dom.emailSubject)
           body == dom.editor
           list == GetData(formManager, "emailList")
           guard == SendGuards(subject, body, list, confirmed)
           stored == StoreData(StoreData(formManager, "subject", subject), "body", body)
       IN /\ UNCHANGED <<excelParser, ui>>
          /\ CASE guard \in {"no subject", "no body"} ->
                    UNCHANGED <<formManager, dom, runVars>>
               [] guard \in {"no recipients", "cancelled"} ->
                    /\ formManager' = stored
                    /\ UNCHANGED <<dom, runVars>>
               [] OTHER ->
                    /\ formManager' = ShowStep(stored, 4)
                    /\ dom' = Sending([UpdateProgress(dom, 0, Len(list), 0, 0)
                                          EXCEPT !.resultsShown = FALSE])
                    /\ \E r \in Runs : SendBulkEmails(r, list)
    /\ UNCHANGED <<wire, emails, validation, invocation>>

\* the part of a step of run r that belongs to the application: the progress
\* callback when the step has called it (at is the loop position then), and
\* the rest of handleSendEmails when the step has settled the run
RunStepInApp(r, at) ==
    LET called == Len(progress'[r]) > Len(progress[r])
        before == World(ledger', emailList[r], at, formManager, dom)
        after == IF called THEN OnProgress(before, progress'[r][Len(progress'[r])])
                 ELSE before
        fm == [currentStep |-> after.currentStep, formData |-> after.formData]
    IN /\ ui' = [ui EXCEPT !.changedByCallback = @ \cup (Changed(before, after) \ {"dom"})]
       /\ excelParser' = excelParser
       /\ CASE pc'[r] = "done" ->
                 /\ formManager' = StoreData(fm, "emailResults", r)
                 /\ dom' = SendingOver(ShowResults(after.dom, result'[r]))
            [] pc'[r] = "rejected" ->
                 /\ formManager' = fm
                 /\ dom' = SendingOver(after.dom)
            [] OTHER ->
                 /\ formManager' = fm
                 /\ dom' = after.dom

\* a send of a run the application started settles
SettleInApp(r, k, resp) ==
    /\ Settle(r, k, resp)
    /\ RunStepInApp(r, i[r])
    /\ UNCHANGED <<wire, emails, validation, invocation>>

\* the inter-batch timer of a run the application started fires
TimerFiresInApp(r) ==
    /\ TimerFires(r)
    /\ RunStepInApp(r, i[r] + BatchSize)
    /\ UNCHANGED <<wire, emails, validation, invocation>>

\* click on startOver (step 4)
StartOver ==
    /\ formManager.currentStep = 4
    /\ AppBecomes(ResetForm(TheApp))
    /\ Reset
    /\ UNCHANGED <<wire, emails, validation, invocation, ui>>

\* what the backend answers the application's sends with
AppResponses == {"sent", "rejected"}

\* the page is loaded, with Config.email.batchSize = 1
InitApp ==
    /\ cfgBatchSize = 1
    /\ cfgDelay = 500
    /\ Fresh
    /\ emails = <<>>

NextApp ==
    \/ \E id \in FileIds : HandleFileSelect(id)
    \/ \E id \in FileIds : FileLoaded(id)
    \/ \E k \in DOMAIN dom.sheetOptions : SheetSelected(k)
    \/ \E k \in DOMAIN dom.columnList : ColumnClicked(k)
    \/ NextToCompose
    \/ BackToUpload
    \/ BackToColumn
    \/ \E text \in SubjectInputs : SubjectTyped(text)
    \/ \E html \in EditorContents : BodyEdited(html)
    \/ \E confirmed \in BOOLEAN : HandleSendEmails(confirmed)
    \/ \E r \in Runs, k \in 1..MaxTotal, resp \in AppResponses :
            SettleInApp(r, k, resp)
    \/ \E r \in Runs : TimerFiresInApp(r)
    \/ StartOver

\* the user's session with the page
SpecApp == InitApp /\ [][NextApp]_vars

(* ------------------------------------------------------------------------ *)
(* FormManager called directly                                                *)
(* ------------------------------------------------------------------------ *)
\* FormManager.init()
FormManagerInit(fm) == [fm EXCEPT !.currentStep = 1]

\* FormManager.nextStep()
NextStep(fm) ==
    IF ValidateStep(fm, fm.currentStep)
    THEN IF fm.currentStep < TotalSteps THEN ShowStep(fm, fm.currentStep + 1) ELSE fm
    ELSE fm

\* FormManager.previousStep()
PreviousStep(fm) ==
    IF fm.currentStep > 1 THEN ShowStep(fm, fm.currentStep - 1) ELSE fm

\* the step numbers showStep is called with, inside and outside 1..totalSteps
StepArguments == (0 - 1)..(TotalSteps + 2)

\* the values storeData is called with, by key
StoredValues ==
    [file |-> {"A"}, selectedColumn |-> {"Email"},
     emailValidation |-> {ValidateEmails(<<"a@x.io">>), ValidateEmails(<<"bad">>)},
     subject |-> {" ", "Hi"}, body |-> {"<p>x</p>"}]

InitCalled ==
    /\ formManager' = FormManagerInit(formManager)
    /\ UNCHANGED <<runVars, wire, emails, validation, invocation, excelParser, dom, ui>>

ShowStepCalled(step) ==
    /\ formManager' = ShowStep(formManager, step)
    /\ UNCHANGED <<runVars, wire, emails, validation, invocation, excelParser, dom, ui>>

NextStepCalled ==
    /\ formManager' = NextStep(formManager)
    /\ UNCHANGED <<runVars, wire, emails, validation, invocation, excelParser, dom, ui>>

PreviousStepCalled ==
    /\ formManager' = PreviousStep(formManager)
    /\ UNCHANGED <<runVars, wire, emails, validation, invocation, excelParser, dom, ui>>

StoreDataCalled(key, value) ==
    /\ formManager' = StoreData(formManager, key, value)
    /\ UNCHANGED <<runVars, wire, emails, validation, invocation, excelParser, dom, ui>>

ResetFormCalled ==
    /\ AppBecomes(ResetForm(TheApp))
    /\ UNCHANGED <<runVars, wire, emails, validation, invocation, ui>>

InitSteps ==
    /\ cfgBatchSize = 0
    /\ cfgDelay = 0
    /\ Fresh
    /\ emails = <<>>

NextSteps ==
    \/ InitCalled
    \/ \E step \in StepArguments : ShowStepCalled(step)
    \/ NextStepCalled
    \/ PreviousStepCalled
    \/ \E key \in DOMAIN StoredValues : \E value \in StoredValues[key] :
            StoreDataCalled(key, value)
    \/ ResetFormCalled

\* the methods of FormManager called in any order
SpecSteps == InitSteps /\ [][NextSteps]_vars

(* ------------------------- vocabulary of the claims -------------------- *)
NumGroups(total, bs) == (total + bs - 1) \div bs

\* the group (1-based) that list position k belongs to
Group(k) == ((k - 1) \div BatchSize) + 1

Entries(led) == led.success \o led.failure

CountIn(seq, r, k) == Cardinality({p \in 1..Len(seq) : seq[p].run = r /\ seq[p].idx = k})

OwnEntries(seq, r) == Cardinality({p \in 1..Len(seq) : seq[p].run = r})

\* the two sequences a run works on: the live ledger while it is in flight,
\* the arrays of its result once it has resolved
RunLedger(r) ==
    IF pc[r] = "done" THEN [success |-> result[r].success, failure |-> result[r].failure]
    ELSE ledger

OnePerRecipient(r, led) ==
    \A k \in 1..Len(emailList[r]) : CountIn(Entries(led), r, k) = 1

\* position of list position k in the settle order of the current batch (0: not settled)
SettlePos(r, k) ==
    IF \E p \in 1..Len(settled[r]) : settled[r][p].idx = k
    THEN CHOOSE p \in 1..Len(settled[r]) : settled[r][p].idx = k
    ELSE 0

(* ------------------------------- claims -------------------------------- *)

\* C1: a run of sendBulkEmails that is not interleaved with another run or
\* with reset() resolves with successCount + failureCount = total = the number
\* of recipients given, for every list, batch size and pattern of results.
C1_CountsAddUp ==
    \A r \in Runs :
        (pc[r] = "done" /\ ~overlapped[r] /\ ~resetDuring[r]) =>
            /\ result[r].successCount + result[r].failureCount = result[r].total
            /\ result[r].total = Len(emailList[r])

C1_Witness ==
    \E r \in Runs :
        /\ pc[r] = "done"
        /\ result[r].total = 3
        /\ result[r].successCount >= 1
        /\ result[r].failureCount >= 1
        /\ Len(progress[r]) = 2

\* C2: fault isolation: when the fetch or the decoding of its response throws
\* for recipient R, the run still records exactly one outcome for every
\* recipient, R's outcome is in failures with errorCode NETWORK_ERROR and
\* email R, and the promise of sendBulkEmails is never rejected.
C2_FaultIsolation ==
    \A r \in Runs :
        /\ pc[r] # "rejected"
        /\ pc[r] = "done" =>
              /\ OnePerRecipient(r, recorded[r])
              /\ \A k \in threw[r] :
                    \E p \in 1..Len(recorded[r].failure) :
                        /\ recorded[r].failure[p].idx = k
                        /\ recorded[r].failure[p].errorCode = "NETWORK_ERROR"
                        /\ recorded[r].failure[p].email = emailList[r][k]
              /\ (~overlapped[r] /\ ~resetDuring[r]) => RunLedger(r) = recorded[r]

C2_Witness ==
    \E r \in Runs :
        /\ pc[r] = "done"
        /\ threw[r] # {}
        /\ \E p \in 1..Len(result[r].success) : result[r].success[p].idx \notin threw[r]
        /\ \E p \in 1..Len(result[r].failure) :
              result[r].failure[p].idx \notin threw[r] /\ result[r].failure[p].errorCode = "400"

\* C3: in every snapshot handed to the progress callback, processed equals
\* success + failure (the ledger lengths at the call) and processed <= total.
C3_SnapshotMatchesLedger ==
    \A r \in Runs :
        \A n \in 1..Len(progress[r]) :
            /\ progress[r][n].processed = progress[r][n].success + progress[r][n].failure
            /\ progress[r][n].processed <= progress[r][n].total

\* C4: the progress callback is called exactly once per group, in group order,
\* after the group's outcomes are in the ledger; the k-th call carries
\* processed = min(k * batchSize, total), so the values strictly increase and
\* the last one is total.
C4_ProgressPerGroup ==
    \A r \in Runs :
        LET total == Len(emailList[r])
            n == Len(progress[r])
        IN /\ n = (IF pc[r] = "await_all" THEN Len(batches[r]) - 1 ELSE Len(batches[r]))
           /\ n <= NumGroups(total, BatchSize)
           /\ pc[r] = "done" => n = NumGroups(total, BatchSize)
           /\ \A k \in 1..n :
                 /\ progress[r][k].processed = Min(k * BatchSize, total)
                 /\ progress[r][k].total = total
                 /\ k > 1 => progress[r][k - 1].processed < progress[r][k].processed
                 /\ Len(observed[r]) = n
                 /\ observed[r][k] = Len(batches[r][k])
           /\ (pc[r] = "done" /\ n > 0) => progress[r][n].processed = total

C4_Witness ==
    \E r \in Runs :
        /\ pc[r] = "done"
        /\ BatchSize = 1
        /\ Len(progress[r]) = 3
        /\ progress[r][1].processed = 1
        /\ progress[r][2].processed = 2
        /\ progress[r][3].processed = 3

RECURSIVE Concat(_)
Concat(ss) == IF ss = <<>> THEN <<>> ELSE Concat(SubSeq(ss, 1, Len(ss) - 1)) \o ss[Len(ss)]

\* C5: the recipient list is cut into contiguous groups in the original
\* order: each group has at most batchSize entries, each but the last exactly
\* batchSize, their concatenation is the list and there are
\* ceil(total / batchSize) of them.
C5_Partition ==
    \A r \in Runs :
        LET total == Len(emailList[r])
            g == Len(batches[r])
            joined == Concat(batches[r])
        IN /\ g <= NumGroups(total, BatchSize)
           /\ \A k \in 1..g :
                 /\ Len(batches[r][k]) >= 1
                 /\ Len(batches[r][k]) <= BatchSize
                 /\ k < NumGroups(total, BatchSize) => Len(batches[r][k]) = BatchSize
           /\ Len(joined) <= total
           /\ joined = SubSeq(emailList[r], 1, Len(joined))
           /\ pc[r] = "done" => (joined = emailList[r] /\ g = NumGroups(total, BatchSize))

C5_Witness ==
    \E r \in Runs :
        /\ pc[r] = "done"
        /\ BatchSize = 2
        /\ Len(batches[r]) = 2
        /\ Len(batches[r][1]) = 2
        /\ Len(batches[r][2]) = 1

\* C6: groups are processed strictly one after the other: while a send of a
\* group is issued, every send of every earlier group has settled, its outcome
\* is in the ledger and its group's progress callback has been made; at most
\* batchSize sends of a run are in flight.
C6_GroupsSequential ==
    \A r \in Runs :
        /\ Cardinality(pending[r]) <= BatchSize
        /\ \A k \in pending[r] : Group(k) = Len(batches[r])
        /\ \A c \in 1..Len(sent[r]) :
              \A k \in 1..((Group(sent[r][c].idx) - 1) * BatchSize) :
                  /\ k \notin pending[r]
                  /\ CountIn(Entries(recorded[r]), r, k) = 1
                  /\ (~overlapped[r] /\ ~resetDuring[r]) =>
                        CountIn(Entries(RunLedger(r)), r, k) = 1
                  /\ Len(progress[r]) >= Group(k)

C6_Witness ==
    \E r \in Runs :
        /\ BatchSize = 2
        /\ pc[r] = "await_all"
        /\ Len(batches[r]) = 2
        /\ pending[r] = {3}
        /\ OwnEntries(Entries(ledger), r) = 2

\* C7: within one run sendEmail is called exactly once for every entry of the
\* recipient list, in list order, duplicates included; no entry is sent to a
\* second time, whatever the outcome of its send.
C7_EachEntrySentOnce ==
    \A r \in Runs :
        /\ Len(sent[r]) <= Len(emailList[r])
        /\ sent[r] = [k \in 1..Len(sent[r]) |-> [idx |-> k, toEmail |-> emailList[r][k]]]
        /\ pc[r] = "done" => Len(sent[r]) = Len(emailList[r])

C7_Witness ==
    \E r \in Runs :
        /\ pc[r] = "done"
        /\ Len(sent[r]) = 3
        /\ sent[r][1].toEmail = sent[r][2].toEmail
        /\ \E p \in 1..Len(result[r].failure) : result[r].failure[p].idx = 1

\* C8: a run owns its ledger: when invocations of sendBulkEmails overlap, the
\* result each resolves with holds exactly the outcomes of its own recipients,
\* one per recipient, and none of another run's.
C8_RunOwnsLedger ==
    \A r \in Runs :
        (pc[r] = "done" /\ ~resetDuring[r]) =>
            /\ OnePerRecipient(r, RunLedger(r))
            /\ \A p \in 1..Len(Entries(RunLedger(r))) : Entries(RunLedger(r))[p].run = r

\* C9: while a run is in flight nothing but the run changes the ledger: a
\* reset() during the run loses none of the outcomes the run has recorded, and
\* the run resolves with one outcome per recipient.
C9_ResetKeepsOutcomes ==
    \A r \in Runs :
        ~overlapped[r] =>
            /\ InFlight(r) =>
                  \A p \in 1..Len(Entries(recorded[r])) :
                      CountIn(Entries(ledger), r, Entries(recorded[r])[p].idx) = 1
            /\ pc[r] = "done" => OnePerRecipient(r, RunLedger(r))

\* two entries of one ledger sequence that belong to the same group of the same run
SameGroup(a, b) == a.run = b.run /\ Group(a.idx) = Group(b.idx)

C11_OneDelayBetweenGroups ==
    \A r \in Runs :
        LET g == Len(batches[r])
            d == Len(delays[r])
        IN /\ d = (IF pc[r] = "delay" THEN g ELSE Max(g - 1, 0))
           /\ d <= Len(progress[r])
           /\ \A c \in 1..Len(sent[r]) : Group(sent[r][c].idx) <= d + 1
           /\ pc[r] = "delay" =>
                 /\ Len(progress[r]) = g
                 /\ pending[r] = {}
                 /\ Len(sent[r]) = g * BatchSize
                 /\ g < NumGroups(Len(emailList[r]), BatchSize)
           /\ pc[r] = "done" => d = Max(NumGroups(Len(emailList[r]), BatchSize) - 1, 0)

C11_Witness ==
    \E r, q \in Runs :
        /\ pc[r] = "done"
        /\ Len(batches[r]) = 2
        /\ Len(delays[r]) = 1
        /\ pc[q] = "done"
        /\ emailList[q] = <<>>
        /\ delays[q] = <<>>

\* C12: for every configured inter-batch delay d >= 0, d = 0 included, the
\* run suspends between two consecutive groups for exactly d.
C12_DelayAsConfigured ==
    \A r \in Runs :
        \A n \in 1..Len(delays[r]) : delays[r][n] = cfgDelay

\* C13: a run whose batch size is below 1 is rejected before sendEmail is
\* called for any recipient and before any progress callback, and does not
\* keep looping.
C13_MalformedRejected ==
    \A r \in Runs :
        BatchSize < 1 =>
            /\ sent[r] = <<>>
            /\ progress[r] = <<>>
            /\ delays[r] = <<>>
            /\ ~InFlight(r)

\* the sends of run r that have settled so far all threw
EverySendThrew(r) ==
    \A c \in 1..Len(sent[r]) : sent[r][c].idx \in pending[r] \cup threw[r]

\* C14: when every send fails by throwing, the run is not cut short: it is
\* never rejected, every group is processed with its delay before the next,
\* the run records no success and one NETWORK_ERROR failure per recipient,
\* and (no other run or reset() interleaved) resolves with an empty success
\* sequence and failureCount = total.
C14_AllFailStillCompletes ==
    \A r \in Runs :
        EverySendThrew(r) =>
            /\ pc[r] # "rejected"
            /\ recorded[r].success = <<>>
            /\ \A p \in 1..Len(recorded[r].failure) :
                  recorded[r].failure[p].errorCode = "NETWORK_ERROR"
            /\ pending[r] = {} => Len(recorded[r].failure) = Len(sent[r])
            /\ pc[r] = "done" =>
                  LET g == NumGroups(Len(emailList[r]), BatchSize)
                  IN /\ Len(batches[r]) = g
                     /\ Len(progress[r]) = g
                     /\ Len(delays[r]) = Max(g - 1, 0)
                     /\ Len(recorded[r].failure) = Len(emailList[r])
                     /\ result[r].total = Len(emailList[r])
                     /\ (~overlapped[r] /\ ~resetDuring[r]) =>
                           /\ result[r].success = <<>>
                           /\ result[r].failureCount = result[r].total
                           /\ \A p \in 1..Len(result[r].failure) :
                                 result[r].failure[p].errorCode = "NETWORK_ERROR"

C14_Witness ==
    \E r \in Runs :
        /\ pc[r] = "done"
        /\ threw[r] = {1, 2, 3}
        /\ BatchSize = 2
        /\ Len(delays[r]) = 1
        /\ result[r].failureCount = 3

\* C15: a run over an empty list resolves at once with total = successCount =
\* failureCount = 0 and empty sequences, and getSummary() then reports
\* successRate 0; the run calls sendEmail and the progress callback zero
\* times and makes no delay.
C15_EmptyList ==
    /\ [][\A r \in Runs :
             (pc[r] = "idle" /\ pc'[r] # "idle" /\ emailList'[r] = <<>>) =>
                 /\ pc'[r] = "done"
                 /\ result'[r] = [success |-> <<>>, failure |-> <<>>, total |-> 0,
                                  successCount |-> 0, failureCount |-> 0]
                 /\ GetSummary(ledger').successRate = Zero
                 /\ GetSummary(ledger').total = 0]_vars
    /\ [](\A r \in Runs :
             (pc[r] # "idle" /\ emailList[r] = <<>>) =>
                 /\ pc[r] = "done"
                 /\ sent[r] = <<>>
                 /\ batches[r] = <<>>
                 /\ progress[r] = <<>>
                 /\ delays[r] = <<>>)

C15_Witness ==
    \E r \in Runs :
        /\ pc[r] = "done"
        /\ emailList[r] = <<>>
        /\ attached[r]
        /\ \E q \in Runs : q < r /\ pc[q] = "done" /\ Len(emailList[q]) > 0

\* the list positions of the group run r is working on
CurrentGroup(r) ==
    IF batches[r] = <<>> THEN {}
    ELSE (i[r] + 1)..(i[r] + Len(batches[r][Len(batches[r])]))

Issued(r) == {sent[r][c].idx : c \in 1..Len(sent[r])}

SettledNow(r) == {settled[r][p].idx : p \in 1..Len(settled[r])}

\* C16: within a group every send is issued before any result of the group
\* is awaited: while the run waits for a group, the send of each of its
\* recipients has been started whether or not the sends of the earlier
\* recipients have settled, and each send still in flight can settle
\* whichever others are still in flight.
C16_GroupIssuedTogether ==
    \A r \in Runs :
        pc[r] = "await_all" =>
            /\ CurrentGroup(r) \subseteq Issued(r)
            /\ CurrentGroup(r) = pending[r] \cup SettledNow(r)
            /\ Cardinality(CurrentGroup(r)) =
                  Min(BatchSize, Len(emailList[r]) - i[r])
            /\ \A k \in pending[r] : ENABLED Settle(r, k, "sent")

C16_Witness ==
    \E r \in Runs :
        /\ pc[r] = "await_all"
        /\ pending[r] = {1}
        /\ SettledNow(r) = {2}
        /\ Issued(r) = {1, 2}

\* C17: while one send of a group has not settled, the group is stalled:
\* none of the group's outcomes is in the ledger, settled sends included, the
\* group's progress callback has not been made, no send of a later group has
\* been issued and the run has not resolved.
C17_UnsettledSendStalls ==
    \A r \in Runs :
        pending[r] # {} =>
            /\ pc[r] = "await_all"
            /\ result[r] = NoResult
            /\ Len(progress[r]) = Len(batches[r]) - 1
            /\ \A k \in CurrentGroup(r) :
                  /\ CountIn(Entries(recorded[r]), r, k) = 0
                  /\ CountIn(Entries(ledger), r, k) = 0
            /\ \A k \in Issued(r) : k <= i[r] + BatchSize

C17_Witness ==
    \E r \in Runs :
        /\ Len(emailList[r]) = 3
        /\ BatchSize = 2
        /\ pending[r] = {2}
        /\ SettledNow(r) = {1}
        /\ Entries(ledger) = <<>>
        /\ progress[r] = <<>>

\* C18: run to completion: when every issued send settles and every
\* inter-batch timer fires, every started run resolves; no step takes a run
\* that is under way anywhere but on to its next suspension or its
\* resolution, and a run resolves only when its last group is processed.
C18_RunToCompletion ==
    /\ \A r \in Runs : InFlight(r) ~> (pc[r] = "done")
    /\ [][\A r \in Runs :
             /\ InFlight(r) => pc'[r] \in {"await_all", "delay", "done"}
             /\ pc[r] = "done" => pc'[r] = "done"]_vars
    /\ [](\A r \in Runs :
             pc[r] = "done" =>
                 LET g == NumGroups(Len(emailList[r]), BatchSize)
                 IN /\ Len(batches[r]) = g
                    /\ Len(progress[r]) = g
                    /\ Len(sent[r]) = Len(emailList[r])
                    /\ pending[r] = {}
                    /\ OnePerRecipient(r, recorded[r]))

C18_Witness ==
    \E r \in Runs :
        /\ pc[r] = "done"
        /\ Len(batches[r]) = 3
        /\ Len(delays[r]) = 2
        /\ Len(result[r].success) + Len(result[r].failure) = 3

IsPrefix(s, t) == Len(s) <= Len(t) /\ s = SubSeq(t, 1, Len(s))

\* C19: during a single run the ledger only grows at its ends and stays
\* within the run's total: every step taken while the run (overlapped by no
\* other run) is under way leaves each of the two sequences an extension of
\* what it was (nothing removed, reordered or moved across), and
\* success.length + failure.length never exceeds total.
C19_AppendOnlyBounded ==
    [][\A r \in Runs :
          (InFlight(r) /\ ~overlapped'[r]) =>
                /\ IsPrefix(ledger.success, ledger'.success)
                /\ IsPrefix(ledger.failure, ledger'.failure)
                /\ Len(ledger'.success) + Len(ledger'.failure) <= Len(emailList[r])]_vars

ResultConsistent(res, list) ==
    /\ res.successCount = Len(res.success)
    /\ res.failureCount = Len(res.failure)
    /\ res.total = Len(list)
    /\ \A p \in 1..Len(res.success) : res.success[p].success
    /\ \A p \in 1..Len(res.failure) : ~res.failure[p].success

\* C20: the result a run resolves with is consistent: successCount and
\* failureCount are the lengths of its success and failure sequences, total
\* is the number of recipients given, every element of success has a true
\* success flag and no element of failure has; it stays so for a run that
\* no other run overlapped.
C20_ResultConsistent ==
    /\ [][\A r \in Runs :
             (pc[r] # "done" /\ pc'[r] = "done") =>
                 ResultConsistent(result'[r], emailList'[r])]_vars
    /\ [](\A r \in Runs :
             (pc[r] = "done" /\ ~overlapped[r]) =>
                 ResultConsistent(result[r], emailList[r]))

C20_Witness ==
    \E r \in Runs :
        /\ pc[r] = "done"
        /\ result[r].successCount = 2
        /\ result[r].failureCount = 1
        /\ result[r].total = 3

\* C21: getSummary() reports total = success + failure; successRate is 0 for
\* an empty ledger, 100 when every outcome is a success (at least one), and
\* success / (success + failure) * 100 otherwise.
C21_Summary ==
    LET s == Len(ledger.success)
        f == Len(ledger.failure)
        sm == GetSummary(ledger)
    IN /\ sm.total = s + f
       /\ sm.success = s
       /\ sm.failure = f
       /\ (s = 0 /\ f = 0) => sm.successRate = Zero
       /\ (s > 0 /\ f = 0) => sm.successRate = Ratio(100, 1)
       /\ s + f > 0 =>
             /\ sm.successRate.den > 0
             /\ sm.successRate.num * (s + f) = s * 100 * sm.successRate.den

C21_Witness ==
    /\ Len(ledger.success) = 2
    /\ Len(ledger.failure) = 1
    /\ GetSummary(ledger).successRate = [num |-> 200, den |-> 3]

\* C22: reset() empties both ledger sequences in one step: right after it
\* getSuccessList() and getFailureList() are empty and getSummary() reports
\* total 0; no step empties one sequence and leaves outcomes in the other;
\* the step that starts a run leaves the ledger as empty as reset() does.
C22_ResetClearsBoth ==
    [][/\ Reset =>
             /\ GetSuccessList(ledger') = <<>>
             /\ GetFailureList(ledger') = <<>>
             /\ GetSummary(ledger').total = 0
       /\ (ledger.success # <<>> /\ ledger'.success = <<>>) => ledger'.failure = <<>>
       /\ (ledger.failure # <<>> /\ ledger'.failure = <<>>) => ledger'.success = <<>>
       /\ \A r \in Runs :
             (pc[r] = "idle" /\ pc'[r] # "idle") =>
                 /\ GetSuccessList(ledger') = <<>>
                 /\ GetFailureList(ledger') = <<>>]_vars

C22_Witness ==
    \E r \in Runs :
        /\ pc[r] = "done"
        /\ result[r].success # <<>>
        /\ result[r].failure # <<>>
        /\ ~attached[r]
        /\ \A q \in Runs : q # r => pc[q] = "idle"
        /\ ledger = EmptyLedger

\* C30: from the resolution of a run until the next reset() or start of a
\* run, getSuccessList() and getFailureList() return the sequences of that
\* run's result (its own outcomes, for a run nothing interleaved with); a
\* reset() or the start of a run leaves the sequences in the result of every
\* run that has already resolved as they are.
C30_ResultKept ==
    /\ [](\A r \in Runs :
             (pc[r] = "done" /\ attached[r]) =>
                 /\ GetSuccessList(ledger) = result[r].success
                 /\ GetFailureList(ledger) = result[r].failure
                 /\ (~overlapped[r] /\ ~resetDuring[r]) =>
                       /\ GetSuccessList(ledger) = recorded[r].success
                       /\ GetFailureList(ledger) = recorded[r].failure)
    /\ [][\A r \in Runs :
             (/\ pc[r] = "done"
              /\ \/ Reset
                 \/ \E q \in Runs : pc[q] = "idle" /\ pc'[q] # "idle")
             => result'[r] = result[r]]_vars

C30_Witness ==
    \E r, q \in Runs :
        /\ pc[r] = "done"
        /\ ~attached[r]
        /\ Len(result[r].success) = 1
        /\ Len(result[r].failure) = 1
        /\ pc[q] = "done"
        /\ attached[q]
        /\ Len(result[q].success) = 1
        /\ result[q].failure = <<>>

(* ------------------------------------------------------------------------ *)
\* the properties an outcome carries with a string value
Carries(o, prop) == prop \in o.has

\* C23: every outcome in the failure sequence carries email (the address of
\* the recipient it was sent for), subject, errorMessage and errorCode,
\* whatever the backend answered; every outcome in the success sequence
\* carries the recipient's address and a messageId
C23_OutcomeFields ==
    (~Falsy(wire.toEmail) /\ ~Falsy(wire.subject) /\ ~Falsy(wire.body)) =>
    /\ \A p \in 1..Len(ledger.failure) :
          LET o == ledger.failure[p]
          IN /\ Carries(o, "email") /\ o.email = wire.toEmail
             /\ Carries(o, "subject") /\ o.subject = wire.subject
             /\ Carries(o, "errorMessage") /\ o.errorMessage # Absent
             /\ Carries(o, "errorCode") /\ o.errorCode # Absent
    /\ \A p \in 1..Len(ledger.success) :
          LET o == ledger.success[p]
          IN /\ Carries(o, "email") /\ o.email = wire.toEmail
             /\ Carries(o, "messageId") /\ o.messageId # Absent

\* the provider has answered the send under way
ProviderAnswered ==
    wire.stage \in {"replied", "recorded"} /\ wire.answer.kind = "response"

\* C24: when the provider answers with a non-2xx status S, the backend
\* responds success:false with errorCode = String(S) and the recipient's
\* address, and the failure recorded for the recipient has that errorCode;
\* when the provider answers 2xx the recorded outcome is a success
C24_ProviderCodeKept ==
    ProviderAnswered =>
        LET S == wire.answer.status
        IN IF Ok(S)
           THEN wire.stage = "recorded" =>
                    /\ Len(ledger.success) = 1 /\ ledger.failure = <<>>
                    /\ ledger.success[1].email = wire.toEmail
           ELSE /\ wire.reply.body.success = FALSE
                /\ wire.reply.body.errorCode = ToString(S)
                /\ wire.reply.body.email = wire.toEmail
                /\ wire.stage = "recorded" =>
                      /\ ledger.success = <<>> /\ Len(ledger.failure) = 1
                      /\ ledger.failure[1].email = wire.toEmail
                      /\ ledger.failure[1].errorCode = ToString(S)
(* ------------------------------------------------------------------------ *)
\* the text has the form local@domain.tld, spelled out on its characters:
\* no white space, exactly one "@" with something before it, and after it a
\* "." with something on both sides
WellFormed(text) ==
    LET cs == Chars(text)
        ats == {p \in 1..Len(cs) : cs[p] = "@"}
    IN /\ \A p \in 1..Len(cs) : cs[p] # " "
       /\ Cardinality(ats) = 1
       /\ \A at \in ats :
             /\ at > 1
             /\ \E dot \in (at + 2)..(Len(cs) - 1) : cs[dot] = "."

Positions(list, text) == {p \in 1..Len(list) : list[p] = text}

FirstAt(list, text) == CHOOSE p \in Positions(list, text) :
                            \A q \in Positions(list, text) : p <= q

\* C26: valid holds exactly the distinct well-formed inputs, each once, in
\* the order of their first occurrence, compared character by character;
\* the counts are the lengths, total is the number of inputs, every input
\* that does not match is in invalid, and validCount + invalidCount <= total
C26_ValidateEmails ==
    validation # NotValidated =>
        LET v == validation
        IN /\ \A p \in 1..Len(v.valid) :
                 WellFormed(v.valid[p]) /\ Positions(emails, v.valid[p]) # {}
           /\ \A p \in 1..Len(emails) :
                 WellFormed(emails[p]) => Cardinality(Positions(v.valid, emails[p])) = 1
           /\ \A p, q \in 1..Len(v.valid) :
                 p < q => FirstAt(emails, v.valid[p]) < FirstAt(emails, v.valid[q])
           /\ v.validCount = Len(v.valid)
           /\ v.invalidCount = Len(v.invalid)
           /\ v.total = Len(emails)
           /\ \A p \in 1..Len(emails) :
                 ~WellFormed(emails[p]) =>
                     \E q \in 1..Len(v.invalid) : v.invalid[q].email = emails[p]
           /\ Len(v.invalid) = Cardinality({p \in 1..Len(emails) : ~WellFormed(emails[p])})
           /\ v.validCount + v.invalidCount <= v.total

\* a column with a repeated address and the same address in another case
C26_Witness ==
    /\ emails = <<"a@x.io", "A@x.io", "a@x.io">>
    /\ validation # NotValidated
    /\ validation.valid = <<"a@x.io", "A@x.io">>
    /\ validation.validCount + validation.invalidCount < validation.total
(* ------------------------------------------------------------------------ *)
\* C25: the progress callback the application passes only reads the
\* snapshot: a call changes neither the service's results, nor the
\* recipient list, nor the position of the run, nor formData, nor currentStep
C25_CallbackReadsOnly == ui.changedByCallback = {}

\* the callback has been called twice by a run of two recipients and the
\* page shows what the second call was given
C25_Witness ==
    \E r \in Runs :
        /\ Len(progress[r]) = 2
        /\ dom.progress = progress[r][2]
        /\ dom.progress.processed = 2
        /\ pc[r] = "done"

(* ------------------------------------------------------------------------ *)
\* invocation r of sendBulkEmails starts in this step
Starts(r) == pc[r] = "idle" /\ pc'[r] # "idle"

\* the column of the sheet of the file, read and validated anew
AddressesOf(id, sheetName, columnName) ==
    IF id = Null \/ ~FileOf(id).readable THEN <<>>
    ELSE ValidateEmails(GetColumnData(GetSheetData([NoParser EXCEPT !.workbook = id],
                                                   sheetName),
                                      columnName)).valid

\* C27: the list a run started from the page is given is the validated,
\* deduplicated addresses of the selected column of the selected sheet of the
\* file uploaded last; a list of an earlier file, sheet or column is never
\* sent to
C27_ListIsCurrent ==
    [][\A r \in Runs :
          Starts(r) =>
              emailList'[r] = AddressesOf(formManager.formData.file,
                                          formManager.formData.selectedSheet,
                                          formManager.formData.selectedColumn)]_vars

(* ------------------------------------------------------------------------ *)
\* what handleSendEmails requires of the page and of the stored list
ReadyToSend ==
    /\ Trim(dom.emailSubject) # ""
    /\ dom.editor \notin {"", EmptyEditor}
    /\ formManager.formData.emailList # <<>>

\* C28: a run is started (sendBulkEmails called, step 4 shown) only with a
\* non-empty trimmed subject, a body that is not empty and not the empty
\* editor's markup, a non-empty stored list and the user's confirmation; a
\* click on Send without one of these starts no run, changes no step and
\* leaves the ledger alone
C28_SendGuarded ==
    [][/\ (\E r \in Runs : Starts(r)) =>
              /\ ReadyToSend
              /\ HandleSendEmails(TRUE)
              /\ ~HandleSendEmails(FALSE)
              /\ formManager'.currentStep = 4
       /\ \A confirmed \in BOOLEAN :
              (HandleSendEmails(confirmed) /\ ~(ReadyToSend /\ confirmed)) =>
                  /\ \A r \in Runs : ~Starts(r)
                  /\ formManager'.currentStep = formManager.currentStep
                  /\ ledger' = ledger
                  /\ pc' = pc]_vars

\* a run started on the page, and a cancelled click before a later run
C28_Witness ==
    /\ \E r \in Runs : pc[r] = "done"
    /\ formManager.currentStep = 3
    /\ formManager.formData.subject = "Hi"
    /\ Trim(dom.emailSubject) = ""
    /\ formManager.formData.emailList # <<>>

(* ------------------------------------------------------------------------ *)
\* C29: the Send button is disabled from the start of a run to its end and
\* enabled again when the run ends, resolved or not; with clicks only on the
\* enabled button, at most one run started from the page is in flight
C29_OneRunAtATime ==
    /\ [](/\ \A r \in Runs : InFlight(r) => dom.sendDisabled
          /\ Cardinality({r \in Runs : InFlight(r)}) <= 1)
    /\ [][\A r \in Runs :
             /\ Starts(r) => dom'.sendDisabled
             /\ (InFlight(r) /\ pc'[r] \in {"done", "rejected"}) => ~dom'.sendDisabled]_vars

\* the user started over during a run and is back at the compose step with
\* everything to send, while the run is still in flight
C29_Witness ==
    /\ \E r \in Runs : InFlight(r)
    /\ formManager.currentStep = 3
    /\ ReadyToSend
    /\ dom.sendDisabled

(* ------------------------------------------------------------------------ *)
\* the handlers have been invoked on an event
Invoked == invocation.stage # "none"

\* the event is a POST to the send-email route
SendEmailRoute(event) ==
    event.method = "POST" /\ event.path \in {"/api/send-email", "/send-email"}

HealthRoute(event) ==
    event.method = "GET" /\ event.path \in {"/api/health", "/health"}

\* the JSON body of the event holds non-empty toEmail, subject and body
FieldsGiven(event) ==
    /\ event.body.kind = "json"
    /\ event.body.toEmail \notin {"", Absent}
    /\ event.body.subject \notin {"", Absent}
    /\ event.body.body \notin {"", Absent}

\* the handler answered with this status and success:false in the body
Refuses(reply, statusCode) ==
    /\ ~reply.rejects
    /\ reply.statusCode = statusCode
    /\ Carries(reply.body, "success") /\ reply.body.success = FALSE

\* C31: the Lambda handler makes a provider request only for a POST to the
\* send-email route with a key and the three fields, and then exactly one;
\* without a key it answers 500 and with a key but a missing field 400, both
\* success:false and without a provider request; OPTIONS answers 200 with an
\* empty body, GET of the health route 200, every other route 404
C31_Routes ==
    Invoked =>
        LET event == invocation.event
            key == invocation.key
            reply == invocation.lambda
        IN /\ invocation.requests =
                 (IF SendEmailRoute(event) /\ key # "" /\ FieldsGiven(event) THEN 1 ELSE 0)
           /\ invocation.requests = 0 =>
                 IF event.method = "OPTIONS"
                 THEN ~reply.rejects /\ reply.statusCode = 200 /\ reply.body = NoBody
                 ELSE IF HealthRoute(event) THEN ~reply.rejects /\ reply.statusCode = 200
                 ELSE IF ~SendEmailRoute(event)
                      THEN ~reply.rejects /\ reply.statusCode = 404
                 ELSE IF key = "" THEN Refuses(reply, 500)
                 ELSE Refuses(reply, 400)

(* ------------------------------------------------------------------------ *)
\* the handlers have returned (or rejected) for the event
Returned == invocation.stage = "returned"

\* an exception is raised while the send-email request is handled: the
\* event's body is no JSON, the provider request fails, or the provider's
\* body is no JSON
RaisesException ==
    /\ SendEmailRoute(invocation.event)
    /\ \/ invocation.event.body.kind = "invalid"
       \/ /\ invocation.requests = 1
          /\ \/ invocation.answer.kind = "error"
             \/ invocation.answer.body # "" /\ ~IsJson(invocation.answer.body)

\* C32: the Lambda handler never rejects: for every event and every provider
\* answer it returns a response with a status code and the CORS headers, and
\* an exception raised while a send-email request is handled becomes a 500
\* response with success:false and errorCode SERVER_ERROR
C32_NeverRejects ==
    Returned =>
        LET reply == invocation.lambda
        IN /\ ~reply.rejects
           /\ reply.statusCode \in 100..599
           /\ reply.cors
           /\ RaisesException =>
                 /\ Refuses(reply, 500)
                 /\ reply.body.errorCode = "SERVER_ERROR"

(* ------------------------------------------------------------------------ *)
\* the errorCode of a response body, if it has one
ErrorCodeOf(reply) ==
    IF Carries(reply.body, "errorCode") THEN reply.body.errorCode ELSE Absent

\* C33: for every send-email request with a key configured and every provider
\* answer (any status, with an empty, JSON or non-JSON body) the Lambda
\* handler and the Express endpoint return the same HTTP status, the same
\* success flag and the same errorCode
C33_SameAsExpress ==
    (Returned /\ invocation.express # NotAsked) =>
        /\ ~invocation.lambda.rejects
        /\ invocation.lambda.statusCode = invocation.express.statusCode
        /\ invocation.lambda.body.success = invocation.express.body.success
        /\ ErrorCodeOf(invocation.lambda) = ErrorCodeOf(invocation.express)

(* ------------------------------------------------------------------------ *)
\* C34: currentStep is an integer in 1..4 after any sequence of init,
\* showStep, nextStep, previousStep and resetForm; showStep with a step
\* outside 1..4 leaves it unchanged; nextStep adds one exactly when
\* validateStep(currentStep) holds and the step is below 4; previousStep
\* takes one off exactly when the step is above 1
C34_StepInRange ==
    /\ [](formManager.currentStep \in 1..4)
    /\ [][LET step == formManager.currentStep
              after == formManager'.currentStep
          IN /\ \A arg \in StepArguments \ (1..4) : ShowStepCalled(arg) => after = step
             /\ \A arg \in 1..4 : ShowStepCalled(arg) => after = arg
             /\ NextStepCalled =>
                   after = (IF ValidateStep(formManager, step) /\ step < 4
                            THEN step + 1 ELSE step)
             /\ PreviousStepCalled => after = (IF step > 1 THEN step - 1 ELSE step)
             /\ (InitCalled \/ ResetFormCalled) => after = 1]_vars

\* the wizard stands at step 2 with a file stored and without a column with
\* a valid address, where nextStep does not advance
C34_Witness ==
    /\ formManager.currentStep = 2
    /\ ValidateStep(formManager, 1)
    /\ ~ValidateStep(formManager, 2)
    /\ formManager.formData.emailValidation # NotValidated

(* ------------------------------------------------------------------------ *)
\* the file is at most 10 MB and its name ends in .xlsx or .xls, in any case
PassesValidation(file) ==
    /\ file.size <= 10 * 1024 * 1024
    /\ LET last == file.name[Len(file.name)]
       IN last \in {"xlsx", "xls", "XLSX", "XLS"}

\* parsing the file fails: it cannot be read, or it has no sheet
ParsingFails(file) == ~file.readable \/ Len(file.sheets) = 0

\* C35: a file selection takes the wizard off the upload step only for a file
\* that passed validation and whose parsing produced a sheet; a file that
\* fails validation changes neither formData nor currentStep; a file whose
\* parsing fails leaves currentStep unchanged and validateStep(1) false
C35_UploadGuarded ==
    [][\A id \in FileIds :
          LET file == FileOf(id)
          IN /\ (HandleFileSelect(id) \/ FileLoaded(id)) =>
                   \/ formManager'.currentStep = formManager.currentStep
                   \/ /\ PassesValidation(file)
                      /\ Len(GetSheets(excelParser')) >= 1
             /\ (HandleFileSelect(id) /\ ~PassesValidation(file)) =>
                   formManager' = formManager
             /\ (FileLoaded(id) /\ ParsingFails(file)) =>
                   /\ formManager'.currentStep = formManager.currentStep
                   /\ ~ValidateStep(formManager', 1)]_vars

(* ------------------------------------------------------------------------ *)
\* C36: Start Over, from any reachable state, leaves currentStep at 1, every
\* formData field at its initial value (no file, sheet or column, an empty
\* list, no validation, empty subject and body, empty emailResults), the
\* parser cleared and both ledger sequences empty, so that validateStep(1),
\* validateStep(2) and validateStep(3) are false
C36_StartOverResets ==
    [][StartOver =>
          LET formData == formManager'.formData
          IN /\ formManager'.currentStep = 1
             /\ formData.file = Null /\ formData.fileName = <<>> /\ formData.fileSize = 0
             /\ formData.selectedSheet = Null /\ formData.selectedColumn = Null
             /\ formData.emailList = <<>> /\ formData.emailValidation = NotValidated
             /\ formData.subject = "" /\ formData.body = ""
             /\ formData.emailResults = 0
             /\ excelParser'.workbook = Null /\ excelParser'.currentSheet = Null
             /\ ~excelParser'.hasData
             /\ ledger'.success = <<>> /\ ledger'.failure = <<>>
             /\ \A step \in 1..3 : ~ValidateStep(formManager', step)]_vars

\* the user has started over after a run that recorded an outcome
C36_Witness ==
    /\ \E r \in Runs : pc[r] = "done" /\ recorded[r] # EmptyLedger
    /\ formManager = NewFormManager
    /\ excelParser = NoParser
    /\ ledger = EmptyLedger

(* ------------------------------------------------------------------------ *)
\* the rows of the sheet, counted from the header as row 1, whose cell of
\* the column is not blank and holds no well-formed address
RECURSIVE InvalidRows(_, _)
InvalidRows(sheetData, upTo) ==
    IF upTo < 2 THEN <<>>
    ELSE LET before == InvalidRows(sheetData, upTo - 1)
             cell == sheetData[upTo][1]
         IN IF cell # "" /\ ~WellFormed(Trim(cell)) THEN Append(before, upTo) ELSE before

\* C37: the row validateEmails reports for an invalid address is the row of
\* the sheet the address stands in (the header is row 1), for every column
\* getColumnData returns, blank cells before the address or not
C37_RowOfTheSheet ==
    (excelParser.hasData /\ validation # NotValidated) =>
        LET rows == InvalidRows(excelParser.sheetData, Len(excelParser.sheetData))
        IN /\ Len(validation.invalid) = Len(rows)
           /\ \A p \in 1..Len(rows) :
                 /\ validation.invalid[p].row = rows[p]
                 /\ validation.invalid[p].email = Trim(excelParser.sheetData[rows[p]][1])
====
